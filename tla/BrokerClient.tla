---------------------------- MODULE BrokerClient ----------------------------
(***************************************************************************)
(* HALClient and the three things the verifier does with it                *)
(* (pact_verifier/src/pact_broker.rs): fetch the latest pacts, fetch the   *)
(* pacts for verification, publish results.  Each is a chain of requests   *)
(* that follows the links of the documents the broker answers with.        *)
(*                                                                         *)
(* One action is an answer and all the code that runs until the next       *)
(* request.  The broker answers what it likes or never (the client has no  *)
(* timeout), and a request without a good answer may have had its effect.  *)
(* A document is a function from link names to links; a link is "good" (an *)
(* href with a path), "noHref", "noUrl" (an href that is no URL and can't  *)
(* be joined to one), "relative" (an href that is neither absolute nor     *)
(* begins with a slash) or "malformed" (not an object).  A provider tag is *)
(* known by its place in the list of tags.                                 *)
(***************************************************************************)
EXTENDS Naturals, Sequences, FiniteSets

CONSTANTS
  Retries,      \* HALClient::default has 3
  Jobs,         \* what the client is asked to do (see JobsAssumption)
  Documents,    \* resource name -> the documents it may have
  Lists         \* resource name -> the lists of pact links it may have

ASSUME BrokerAssumption == Retries \in Nat \ {0}

\* A job is fetching or publishing; tags is the number of provider tags.
ASSUME JobsAssumption ==
  \A j \in Jobs : /\ j.op \in {"latest", "dynamic", "publish"}
                  /\ j.branch \in BOOLEAN /\ j.tags \in Nat
                  /\ Len(j.results) \in Nat /\ DOMAIN j.results = 1 .. Len(j.results)

PactLinkKinds == {"good", "noHref", "noUrl", "noSelf"}

ASSUME ListsAssumption ==
  Lists["latest"] \subseteq Seq(PactLinkKinds) /\ Lists["selection"] \subseteq Seq(PactLinkKinds)

VARIABLES
  job,        \* the call: [op, branch, tags, links, results]
  pc,         \* the request that is under way, "unanswered", or "done"
  attempt,    \* how often it has been sent
  pathInfo,   \* the document the client has navigated to
  todo,       \* pact links to be followed, or tags to be put
  fetched,    \* what was made of the links followed so far
  result,     \* what the call returned
  listed,     \* history: the pact links the broker gave
  told,       \* history: the last answer to each GET of a pact, by its link
  recorded,   \* the broker: how often each item was recorded
  again       \* history: items whose request was sent again after a 50x

vars == <<job, pc, attempt, pathInfo, todo, fetched, result, listed, told,
          recorded, again>>

NoLinks == [name \in {} |-> "good"]
Ok(value) == [ok |-> TRUE, value |-> value]
Err(kind) == [ok |-> FALSE, value |-> kind]

TagsOf(j) == {<<"tag", k>> : k \in 1 .. j.tags}
Items == {<<"branch", 0>>, <<"results", 0>>} \cup TagsOf(job)

-----------------------------------------------------------------------------
(* Links.                                                                  *)

\* find_link: the document must have _links, the link, and it an object.
FindLink(document, name) ==
  IF name \in DOMAIN document /\ document[name] # "malformed"
  THEN Ok(document[name]) ELSE Err("LinkError")

\* iter_links: the link must be an array.
IterLinks(document, list) ==
  IF "pacts" \in DOMAIN document /\ document["pacts"] # "malformed"
  THEN Ok(list) ELSE Err("LinkError")

\* fetch_url and parse_link_url: without an href there is nothing to fetch,
\* and the href is joined with the URL of the broker.
FetchUrl(link) ==
  CASE link = "noHref" -> Err("LinkError")
    [] link = "noUrl"  -> Err("UrlError")
    [] OTHER           -> Ok("GET")

Fetchable(link) == FetchUrl(link).ok

\* parse_link_url, then send_document, which parses an href that does not
\* begin with a slash as an absolute URL.
SendTo(link) ==
  CASE link = "noHref"   -> Err("LinkError")
    [] link \in {"relative", "noUrl"} -> Err("UrlError")
    [] OTHER             -> Ok("PUT")

\* publish_link.href.unwrap_or_default(): no href is the empty URL.
PostTo(link) == IF link = "good" THEN Ok("POST") ELSE Err("UrlError")

-----------------------------------------------------------------------------
(* Answers.                                                                *)

Answers == {"json", "notJson", "badJson", "notFound", "validation", "badRequest",
            "clientError", "serverError", "noResponse"}

\* parse_broker_response: only a success with a JSON body that parses is
\* good, so a broker that answers 204 has failed.
ParseBrokerResponse(answer) ==
  CASE answer = "json"                  -> Ok("json")
    [] answer \in {"notJson", "badJson"} -> Err("ContentError")
    [] answer = "notFound"              -> Err("NotFound")
    [] answer = "validation"            -> Err("ValidationError")
    [] answer \in {"badRequest", "clientError", "serverError", "noResponse"} -> Err("IoError")

\* Mutant of Final: every failure is sent again.
MFinal(answer) == answer = "json" \/ attempt = Retries

\* with_retries: only a 50x is sent again, until the attempts are used up.
Final(answer) == answer # "serverError" \/ attempt = Retries

\* What a request that changes something may have done at the broker.  The
\* count stops one above what the retries allow.
Effects(item, answer) ==
  LET once == [recorded EXCEPT ![item] = IF @ > Retries THEN @ ELSE @ + 1] IN
  CASE answer \in {"json", "notJson", "badJson"}  -> {once}
    [] answer \in {"serverError", "noResponse"}   -> {once, recorded}
    [] OTHER                                      -> {recorded}

-----------------------------------------------------------------------------
(* The payload.  A result is [id, says]: the interaction's id at the       *)
(* broker ("" for none), and "passed", "mismatch", "error", or "nothing"   *)
(* for a failure without any mismatch (a plugin's).                        *)

Succeeded(results) == \A k \in DOMAIN results : results[k].says = "passed"

\* chunk_by joins neighbours with the same id.
Chunks(results) ==
  {c \in (DOMAIN results) \X (DOMAIN results) :
     /\ c[1] <= c[2]
     /\ \A k \in c[1]..c[2] : results[k].id = results[c[1]].id
     /\ c[1] = 1 \/ results[c[1] - 1].id # results[c[1]].id
     /\ c[2] = Len(results) \/ results[c[2] + 1].id # results[c[1]].id}

\* Mutant of BuildPayload: a chunk is judged by its first result.
MBuildPayload(results) ==
  [success |-> Succeeded(results),
   tests |-> {[id |-> results[c[1]].id,
               success |-> results[c[1]].says \notin {"mismatch", "error"}] :
                c \in Chunks(results)}]

\* build_payload: an entry for each id, and for results that all passed only
\* for those that have one.
BuildPayload(results) ==
  [success |-> Succeeded(results),
   tests |->
     IF Succeeded(results)
     THEN {[id |-> results[k].id, success |-> TRUE] :
             k \in {k \in DOMAIN results : results[k].id # ""}}
     ELSE {[id |-> results[c[1]].id,
            success |-> \A k \in c[1]..c[2] : results[k].says \notin {"mismatch", "error"}] :
             c \in Chunks(results)}]

-----------------------------------------------------------------------------
(* Where a call goes next.                                                 *)

Finish(outcome) ==
  /\ pc' = "done"
  /\ result' = outcome
  /\ UNCHANGED <<todo, fetched>>

Request(next) ==
  /\ pc' = next
  /\ UNCHANGED <<todo, fetched, result>>

\* If the step gave a value the next request is sent, else its error is returned.
Then(step, next) == IF step.ok THEN Request(next) ELSE Finish(step)

\* How many of the leading links are errors at once, leading nowhere.
Skipped(links) == Cardinality({n \in DOMAIN links : \A k \in 1..n : ~Fetchable(links[k])})

\* Mutant of FollowPacts: a link that leads nowhere is dropped.
MFollowPacts(done, links) ==
  LET n == Skipped(links) IN
  /\ fetched' = done
  /\ todo' = SubSeq(links, n + 1, Len(links))
  /\ IF n = Len(links) THEN pc' = "done" /\ result' = Ok("pacts")
                       ELSE pc' = "pact" /\ UNCHANGED result

\* The stream of the pact links: one after the other, an entry for each.
FollowPacts(done, links) ==
  LET n == Skipped(links) IN
  /\ fetched' = done \o [k \in 1..n |-> FetchUrl(links[k])]
  /\ todo' = SubSeq(links, n + 1, Len(links))
  /\ IF n = Len(links) THEN pc' = "done" /\ result' = Ok("pacts")
                       ELSE pc' = "pact" /\ UNCHANGED result

\* Publishing: the provider is navigated to once for the branch and once for
\* the tags, each time from the links of the pact.
ProviderLink == LET link == FindLink(job.links, "pb:provider") IN
                IF link.ok THEN FetchUrl(link.value) ELSE link

ResultsLink ==
  IF "pb:publish-verification-results" \in DOMAIN job.links
  THEN PostTo(job.links["pb:publish-verification-results"]) ELSE Err("LinkError")

GoForResults == Then(ResultsLink, "results")
GoForTags == IF job.tags > 0 THEN Then(ProviderLink, "tagProvider") ELSE GoForResults

\* Mutant of GoForBranch: the results go first.
MGoForBranch == Then(ResultsLink, "results")

GoForBranch == IF job.branch THEN Then(ProviderLink, "branchProvider") ELSE GoForTags

Init ==
  /\ job \in Jobs
  /\ pc = "start" /\ attempt = 1 /\ pathInfo = NoLinks
  /\ todo = [k \in 1 .. job.tags |-> k] /\ fetched = <<>> /\ result = Err("none")
  /\ listed = <<>> /\ told = {}
  /\ recorded = [item \in Items |-> 0] /\ again = {}

\* navigate starts at the root of the broker if nothing was fetched before.
Start ==
  /\ pc = "start"
  /\ IF job.op = "publish" THEN GoForBranch ELSE Request("index")
  /\ UNCHANGED <<job, attempt, pathInfo, listed, told, recorded, again>>

\* The item that the present request records.
Item ==
  CASE pc = "branch"  -> <<"branch", 0>>
    [] pc = "tag"     -> <<"tag", Head(todo)>>
    [] pc = "results" -> <<"results", 0>>
    [] OTHER          -> <<"none", 0>>

Changes(answer) ==
  IF Item \notin Items THEN UNCHANGED recorded ELSE recorded' \in Effects(Item, answer)

\* A 50x: the same request is sent again.
SendAgain ==
  /\ pc \notin {"start", "done", "unanswered"}
  /\ \E answer \in Answers :
       /\ ~Final(answer)
       /\ Changes(answer)
       /\ again' = IF answer = "serverError" THEN again \cup {Item} ELSE again
  /\ attempt' = attempt + 1
  /\ UNCHANGED <<job, pc, pathInfo, todo, fetched, result, listed, told>>

\* HALClient::default builds a client without a timeout: a request that is
\* never answered is waited for, whatever has come of it at the broker.
NeverAnswered ==
  /\ pc \notin {"start", "done", "unanswered"}
  /\ Changes("noResponse")
  /\ pc' = "unanswered"
  /\ UNCHANGED <<job, attempt, pathInfo, todo, fetched, result, listed, told, again>>

\* The last answer to a request.
Answered(answer) ==
  /\ Final(answer)
  /\ Changes(answer)
  /\ attempt' = 1
  /\ UNCHANGED <<job, again>>

\* navigate: the index, then the link of the operation.
EntryLink(op) ==
  IF op = "latest" THEN "pb:latest-provider-pacts" ELSE "pb:provider-pacts-for-verification"

IndexFetched(answer) ==
  /\ pc = "index" /\ Answered(answer)
  /\ UNCHANGED <<listed, told>>
  /\ IF ~ParseBrokerResponse(answer).ok
     THEN Finish(ParseBrokerResponse(answer)) /\ UNCHANGED pathInfo
     ELSE /\ pathInfo' \in Documents["index"]
          /\ LET link == FindLink(pathInfo', EntryLink(job.op)) IN
             Then(IF link.ok THEN FetchUrl(link.value) ELSE link, "entry")

\* fetch_pacts_from_broker: the list of pacts is in the document itself.
LatestFetched(answer) ==
  /\ pc = "entry" /\ job.op = "latest" /\ Answered(answer)
  /\ UNCHANGED told
  /\ IF ~ParseBrokerResponse(answer).ok
     THEN Finish(ParseBrokerResponse(answer)) /\ UNCHANGED <<pathInfo, listed>>
     ELSE \E document \in Documents["latest"], list \in Lists["latest"] :
            /\ pathInfo' = document
            /\ IF IterLinks(document, list).ok
               THEN listed' = list /\ FollowPacts(<<>>, list)
               ELSE Finish(IterLinks(document, list)) /\ UNCHANGED listed

\* fetch_pacts_dynamically_from_broker: the selectors are posted to "self".
EntryFetched(answer) ==
  /\ pc = "entry" /\ job.op = "dynamic" /\ Answered(answer)
  /\ UNCHANGED <<listed, told>>
  /\ IF ~ParseBrokerResponse(answer).ok
     THEN Finish(ParseBrokerResponse(answer)) /\ UNCHANGED pathInfo
     ELSE /\ pathInfo' \in Documents["entry"]
          /\ LET link == FindLink(pathInfo', "self") IN
             Then(IF link.ok THEN SendTo(link.value) ELSE link, "selection")

\* A body that cannot be deserialised counts as an empty list; an empty list
\* is NotFound; one pact without a self link fails the whole call.
SelectionPosted(answer) ==
  /\ pc = "selection" /\ Answered(answer)
  /\ UNCHANGED <<pathInfo, told>>
  /\ IF ~ParseBrokerResponse(answer).ok
     THEN Finish(ParseBrokerResponse(answer)) /\ UNCHANGED listed
     ELSE \E list \in Lists["selection"] \cup {<<"garbage">>} :
            IF list \in {<<>>, <<"garbage">>}
            THEN Finish(Err("NotFound")) /\ listed' = list
            ELSE IF \E k \in DOMAIN list : list[k] = "noSelf"
                 THEN Finish(Err("LinkError")) /\ UNCHANGED listed
                 ELSE listed' = list /\ FollowPacts(<<>>, list)

\* fetch_url and load_pact_from_json of one link.
Loaded(answer, valid) ==
  IF ~ParseBrokerResponse(answer).ok THEN ParseBrokerResponse(answer)
  ELSE IF valid THEN Ok("pact") ELSE Err("ContentError")

PactFetched(answer) ==
  /\ pc = "pact" /\ Answered(answer)
  /\ \E valid \in BOOLEAN :
       /\ told' = told \cup {[link |-> Len(listed) - Len(todo) + 1,
                             answer |-> answer, valid |-> valid]}
       /\ FollowPacts(Append(fetched, Loaded(answer, valid)), Tail(todo))
  /\ UNCHANGED <<pathInfo, listed>>

\* publish_provider_branch and publish_provider_tags have the provider.
ProviderFetched(answer, at, link, next) ==
  /\ pc = at /\ Answered(answer)
  /\ UNCHANGED <<listed, told>>
  /\ IF ~ParseBrokerResponse(answer).ok
     THEN Finish(ParseBrokerResponse(answer)) /\ UNCHANGED pathInfo
     ELSE /\ pathInfo' \in Documents["provider"]
          /\ LET found == FindLink(pathInfo', link) IN
             Then(IF found.ok THEN SendTo(found.value) ELSE found, next)

BranchPut(answer) ==
  /\ pc = "branch" /\ Answered(answer)
  /\ IF ParseBrokerResponse(answer).ok THEN GoForTags ELSE Finish(ParseBrokerResponse(answer))
  /\ UNCHANGED <<pathInfo, listed, told>>

\* Mutant of TagPut: the tag is not taken off the list.
MTagPutStuck(answer) ==
  /\ pc = "tag" /\ Answered(answer)
  /\ IF ~ParseBrokerResponse(answer).ok THEN Finish(ParseBrokerResponse(answer))
     ELSE IF Len(todo) > 1 THEN UNCHANGED <<todo, pc, fetched, result>>
     ELSE GoForResults
  /\ UNCHANGED <<pathInfo, listed, told>>

\* One tag after the other; the first that fails is the last.
TagPut(answer) ==
  /\ pc = "tag" /\ Answered(answer)
  /\ IF ~ParseBrokerResponse(answer).ok THEN Finish(ParseBrokerResponse(answer))
     ELSE IF Len(todo) > 1 THEN todo' = Tail(todo) /\ UNCHANGED <<pc, fetched, result>>
     ELSE GoForResults
  /\ UNCHANGED <<pathInfo, listed, told>>

ResultsPosted(answer) ==
  /\ pc = "results" /\ Answered(answer)
  /\ Finish(ParseBrokerResponse(answer))
  /\ UNCHANGED <<pathInfo, listed, told>>

Next ==
  \/ Start \/ SendAgain \/ NeverAnswered
  \/ \E answer \in Answers :
       \/ IndexFetched(answer) \/ LatestFetched(answer) \/ EntryFetched(answer)
       \/ SelectionPosted(answer) \/ PactFetched(answer)
       \/ ProviderFetched(answer, "branchProvider", "pb:branch-version", "branch")
       \/ ProviderFetched(answer, "tagProvider", "pb:version-tag", "tag")
       \/ BranchPut(answer) \/ TagPut(answer) \/ ResultsPosted(answer)

\* The call goes on whenever it can: a request is answered, fails, or is one
\* that is never answered, which is an action of its own.
Spec == Init /\ [][Next]_vars /\ WF_vars(Next)

-----------------------------------------------------------------------------
(* Properties.                                                             *)

Outcomes == {Ok(v) : v \in {"pacts", "json", "pact", "tag"}}
  \cup {Err(k) : k \in {"none", "LinkError", "ContentError", "IoError", "NotFound",
                        "UrlError", "ValidationError"}}

TypeOK ==
  /\ job \in Jobs
  /\ pc \in {"start", "index", "entry", "selection", "pact", "branchProvider",
             "tagProvider", "branch", "tag", "results", "done", "unanswered"}
  /\ attempt \in 1..Retries
  /\ result \in Outcomes /\ fetched \in Seq(Outcomes)
  /\ listed \in Seq(PactLinkKinds \cup {"garbage"})
  /\ told \subseteq [link : Nat, answer : Answers, valid : BOOLEAN]
  /\ recorded \in [Items -> 0..Retries]

\* Every pact link the broker gave has its entry, in the order of the links
\* and made from the answer to its own request, whatever became of the others
\* (fetch_pacts_from_broker, fetch_pacts_dynamically_from_broker).
EveryPactIsAccountedFor ==
  result = Ok("pacts") =>
    /\ Len(fetched) = Len(listed)
    /\ \A k \in DOMAIN listed :
         fetched[k].ok <=> \E t \in told : t.link = k /\ t.answer = "json" /\ t.valid
    /\ \A k \in DOMAIN listed : Fetchable(listed[k]) <=> \E t \in told : t.link = k
    /\ \A t, u \in told : t.link = u.link => t = u

\* A call that fails as a whole has not yet asked for any pact: what was
\* fetched is never thrown away.
FailsBeforePacts == ~result.ok /\ pc = "done" => told = {}

\* Every pact the broker told of is accounted for, whether a call returns
\* pacts or fails.
PactsAreAccountedFor == TypeOK /\ EveryPactIsAccountedFor /\ FailsBeforePacts

\* A provider version is only recorded as verified by a request that was
\* asked for: the results are posted once, or again after a 50x.  A lost
\* answer is no reason to post them twice (publish_verification_results).
PostedTwiceOnlyAfter50x ==
  \A item \in Items : recorded[item] > 1 => item \in again

\* The results of the interaction are next to each other (chunk_by joins no
\* others).
Together(id) ==
  \E c \in Chunks(job.results) :
    \A k \in DOMAIN job.results : job.results[k].id = id <=> k \in c[1]..c[2]

HasFailed(k) == job.results[k].says \in {"mismatch", "error"}

\* What the broker is told is what the run found out (build_payload).  The
\* payload is a success only if every result is one; every result with a
\* mismatch or an error has an entry of a failure; and an interaction whose
\* results are together has one entry only, a failure exactly if one of them
\* has a mismatch or an error.  Of an interaction whose results lie apart each
\* run of neighbours has an entry: a success is told of it only if the
\* results of some such run have neither mismatch nor error.
PayloadTellsTheResults ==
  LET results == job.results
      tests   == BuildPayload(results).tests
  IN /\ BuildPayload(results).success <=> \A k \in DOMAIN results : results[k].says = "passed"
     /\ \A k \in DOMAIN results :
          HasFailed(k) => [id |-> results[k].id, success |-> FALSE] \in tests
     /\ \A k \in DOMAIN results :
          LET id == results[k].id IN
          id # "" /\ Together(id) =>
            {test \in tests : test.id = id} =
              {[id |-> id, success |-> \A m \in DOMAIN results :
                                         results[m].id = id => ~HasFailed(m)]}
     /\ \A test \in tests : test.success =>
          \E c \in Chunks(results) :
            results[c[1]].id = test.id /\ \A k \in c[1]..c[2] : ~HasFailed(k)

\* Publishing implements its promise: results after branch and tags, and
\* success only when everything was recorded.
Wants == (IF job.branch THEN {<<"branch", 0>>} ELSE {}) \cup TagsOf(job)
Publication == INSTANCE BrokerPublication WITH
  Results <- <<"results", 0>>,
  before <- Wants,
  recorded <- {item \in Items : recorded[item] > 0},
  reply <- IF pc # "done" \/ job.op # "publish" THEN "none"
           ELSE IF result.ok THEN "ok" ELSE "error"
ImplementsPublication == Publication!Spec

\* Every call returns, whatever the broker answers, unless a request is never
\* answered at all.
CallReturns == <>(pc \in {"done", "unanswered"})
=============================================================================
