------------------------- MODULE BrokerClientProofs -------------------------
(***************************************************************************)
(* Proofs about BrokerClient, for any jobs, documents, lists of pact links *)
(* and answers, and any number of retries.                                 *)
(***************************************************************************)
EXTENDS BrokerClient, SublistProofs, FiniteSetTheorems

-----------------------------------------------------------------------------
(* The inductive invariant.                                                *)

FetchRequests   == {"index", "entry", "selection", "pact"}
PublishRequests == {"branchProvider", "tagProvider", "branch", "tag", "results"}

\* The request goes with the job and with what is still to be done.
PlaceIsRight ==
  /\ pc \in FetchRequests => job.op # "publish"
  /\ pc \in PublishRequests => job.op = "publish"
  /\ pc = "selection" => job.op = "dynamic"
  /\ pc \in {"branchProvider", "branch"} => job.branch
  /\ pc \in {"tagProvider", "tag"} => job.tags > 0
  /\ pc \in {"start", "branchProvider", "branch", "tagProvider"} =>
       todo = [k \in 1 .. job.tags |-> k]
  /\ pc = "tag" => /\ todo \in Seq(1 .. job.tags) /\ Len(todo) > 0
                   /\ \A k \in 1 .. Len(todo) : todo[k] = job.tags - Len(todo) + k
  /\ pc = "pact" => /\ todo \in Seq(PactLinkKinds) /\ Len(todo) > 0
                    /\ Fetchable(todo[1]) /\ Len(todo) <= Len(listed)
  /\ pc = "start" => attempt = 1
  /\ result.ok => pc = "done"

\* Everything but what the broker has recorded.
Control ==
  /\ job \in Jobs
  /\ pc \in FetchRequests \cup PublishRequests \cup {"start", "done", "unanswered"}
  /\ attempt \in 1..Retries
  /\ result \in Outcomes /\ fetched \in Seq(Outcomes)
  /\ listed \in Seq(PactLinkKinds \cup {"garbage"})
  /\ told \subseteq [link : Nat, answer : Answers, valid : BOOLEAN]
  /\ PlaceIsRight

Answer(k, t) == t.link = k /\ t.answer = "json" /\ t.valid

\* The links that have been followed have their entries, those still to be
\* followed are the rest of the list.
Accounts ==
  pc = "pact" \/ result = Ok("pacts") =>
    /\ Len(fetched) + Len(todo) = Len(listed) /\ Len(todo) \in Nat
    /\ pc = "done" => Len(todo) = 0
    /\ \A k \in 1 .. Len(todo) : todo[k] = listed[Len(fetched) + k]
    /\ \A k \in 1 .. Len(fetched) :
         /\ fetched[k].ok <=> \E t \in told : Answer(k, t)
         /\ Fetchable(listed[k]) <=> \E t \in told : t.link = k
    /\ \A t \in told : t.link <= Len(fetched)
    /\ \A t, u \in told : t.link = u.link => t = u

\* Pacts are only asked for by a call that will return them.
AskedLate == pc \notin {"pact", "unanswered"} /\ ~result.ok => told = {}

\* What has not been sent yet.
Later(item) ==
  \/ job.op # "publish" \/ pc \in {"start", "branchProvider"}
  \/ pc = "branch" /\ item # <<"branch", 0>>
  \/ pc \in {"tagProvider", "tag"} /\ item = <<"results", 0>>
  \/ pc = "tagProvider" /\ item \in TagsOf(job)
  \/ pc = "tag" /\ \E k \in 1 .. job.tags : item = <<"tag", k>> /\ k > todo[1]

\* An item is recorded at most once for each time its request was sent.
Counts ==
  /\ recorded \in [Items -> 0..Retries]
  /\ \A item \in Items : /\ Later(item) => recorded[item] = 0
                         /\ recorded[item] > 1 => item \in again
  /\ Item \in Items => recorded[Item] < attempt
  /\ attempt > 1 /\ pc # "unanswered" => Item \in again

\* Control goes on from the branch and from each tag once it is recorded.
InOrder ==
  /\ pc \in {"tagProvider", "tag", "results"} /\ job.branch => recorded[<<"branch", 0>>] > 0
  /\ pc = "tag" => \A k \in 1 .. job.tags : k < todo[1] => recorded[<<"tag", k>>] > 0
  /\ pc = "results" => \A k \in 1 .. job.tags : recorded[<<"tag", k>>] > 0
  /\ pc = "done" /\ job.op = "publish" /\ result.ok =>
       \A item \in Wants \cup {<<"results", 0>>} : recorded[item] > 0

BrokerInv == Control /\ Accounts /\ AskedLate /\ Counts /\ InOrder

\* From one request to another: what is left to do, and what was recorded.
Moves ==
  \/ pc' = "done"
  \/ pc \in {"start"} \cup FetchRequests /\ pc' \in FetchRequests
  \/ pc = "start" /\ pc' = "branchProvider" /\ todo' = todo
  \/ pc = "start" /\ pc' = "tagProvider" /\ ~job.branch
  \/ pc = "start" /\ pc' = "results" /\ ~job.branch /\ ~(job.tags > 0)
  \/ pc = "branchProvider" /\ pc' = "branch"
  \/ pc = "branch" /\ pc' = "tagProvider"
  \/ pc = "branch" /\ pc' = "results" /\ ~(job.tags > 0)
  \/ pc = "tagProvider" /\ pc' = "tag" /\ todo' = todo
  \/ pc = "tag" /\ pc' = "tag" /\ Len(todo) > 1 /\ todo' = Tail(todo)
  \/ pc = "tag" /\ pc' = "results" /\ ~(Len(todo) > 1)

-----------------------------------------------------------------------------
(* The operators.                                                          *)

\* Skipped counts exactly the leading links that cannot be fetched.
LEMMA SkippedIsLeading ==
  ASSUME NEW X, NEW links \in Seq(X)
  PROVE  /\ Skipped(links) \in 0 .. Len(links)
         /\ \A k \in 1 .. Skipped(links) : ~Fetchable(links[k])
         /\ Skipped(links) < Len(links) => Fetchable(links[Skipped(links) + 1])
<1> DEFINE Leading == {n \in DOMAIN links : \A k \in 1..n : ~Fetchable(links[k])}
           Rest == {n \in 1 .. Len(links) : Fetchable(links[n])}
<1>1. DOMAIN links = 1 .. Len(links) /\ Len(links) \in Nat
  OBVIOUS
<1>2. Skipped(links) = Cardinality(Leading)
  BY DEF Skipped
<1>3. \A m \in Nat : Cardinality(1 .. m) = m
  BY FS_Interval
<1>4. CASE Rest = {}
  <2>1. \A k \in 1 .. Len(links) : ~Fetchable(links[k])
    BY <1>4
  <2>2. Leading = 1 .. Len(links)
    BY <1>1, <2>1
  <2>3. Skipped(links) = Len(links)
    BY <1>1, <1>2, <1>3, <2>2
  <2> QED
    BY <1>1, <2>1, <2>3
<1>5. CASE Rest # {}
  <2>1. PICK m \in Rest : \A n \in Rest : m <= n
    <3>1. Rest \subseteq Nat
      OBVIOUS
    <3> QED
      BY <1>5, <3>1, LeastNatural
  <2>2. m \in 1 .. Len(links) /\ Fetchable(links[m]) /\ \A k \in 1 .. m - 1 : ~Fetchable(links[k])
    BY <1>1, <2>1
  <2>3. Leading = 1 .. m - 1
    BY <1>1, <2>2
  <2>4. Skipped(links) = m - 1
    <3>1. m - 1 \in Nat
      BY <2>2
    <3> QED
      BY <1>2, <1>3, <2>3, <3>1
  <2> QED
    BY <1>1, <2>2, <2>4
<1> QED
  BY <1>4, <1>5

\* FollowPacts gives each leading link that cannot be fetched its error, and stops
\* at the first link that can be followed.
LEMMA FollowsTheLinks ==
  ASSUME NEW done \in Seq(Outcomes), NEW links \in Seq(PactLinkKinds), FollowPacts(done, links)
  PROVE  \E n \in 0 .. Len(links) :
           /\ fetched' \in Seq(Outcomes) /\ Len(fetched') = Len(done) + n
           /\ \A k \in 1 .. Len(done) : fetched'[k] = done[k]
           /\ \A k \in 1 .. n : ~Fetchable(links[k]) /\ ~fetched'[Len(done) + k].ok
           /\ todo' \in Seq(PactLinkKinds) /\ Len(todo') = Len(links) - n
           /\ \A k \in 1 .. Len(todo') : todo'[k] = links[n + k]
           /\ \/ n = Len(links) /\ pc' = "done" /\ result' = Ok("pacts")
              \/ n < Len(links) /\ pc' = "pact" /\ result' = result /\ Fetchable(todo'[1])
<1> DEFINE n == Skipped(links)
           errors == [k \in 1 .. n |-> FetchUrl(links[k])]
<1>1. n \in 0 .. Len(links) /\ (\A k \in 1 .. n : ~Fetchable(links[k]))
      /\ (n < Len(links) => Fetchable(links[n + 1]))
  BY SkippedIsLeading
<1>2. /\ fetched' = done \o errors
      /\ todo' = SubSeq(links, n + 1, Len(links))
      /\ IF n = Len(links) THEN pc' = "done" /\ result' = Ok("pacts")
                           ELSE pc' = "pact" /\ result' = result
  BY DEF FollowPacts
<1>3. Len(links) \in Nat /\ Len(done) \in Nat
  OBVIOUS
<1> HIDE DEF n
<1>4. errors \in Seq(Outcomes) /\ Len(errors) = n /\ \A k \in 1 .. n : errors[k] = FetchUrl(links[k])
  <2>1. \A k \in 1 .. n : FetchUrl(links[k]) \in Outcomes
    BY <1>1 DEF Fetchable, FetchUrl, Ok, Err, Outcomes
  <2> QED
    BY <1>1, <2>1
<1> HIDE DEF errors
<1>5. /\ fetched' \in Seq(Outcomes) /\ Len(fetched') = Len(done) + n
      /\ \A k \in 1 .. Len(done) : fetched'[k] = done[k]
      /\ \A k \in 1 .. n : fetched'[Len(done) + k] = FetchUrl(links[k])
  <2>1. \A X : \A a, b \in Seq(X) : Len(a \o b) = Len(a) + Len(b) /\ a \o b \in Seq(X)
    OBVIOUS
  <2>2. Len(done \o errors) = Len(done) + Len(errors) /\ done \o errors \in Seq(Outcomes)
    BY <1>4, <2>1
  <2>3. \A k \in 1 .. Len(done) : (done \o errors)[k] = done[k]
    BY <1>3, <1>4
  <2>4. \A k \in 1 .. Len(errors) : (done \o errors)[Len(done) + k] = errors[k]
    BY <1>3, <1>4
  <2> QED
    BY <1>2, <1>4, <2>2, <2>3, <2>4
<1>6. \A k \in 1 .. n : ~FetchUrl(links[k]).ok
  BY <1>1 DEF Fetchable
<1>7. /\ todo' \in Seq(PactLinkKinds) /\ Len(todo') = Len(links) - n
      /\ \A k \in 1 .. Len(todo') : todo'[k] = links[n + k]
  <2>1. \A k \in n + 1 .. Len(links) : links[k] \in PactLinkKinds
    BY <1>1
  <2>2. /\ SubSeq(links, n + 1, Len(links)) \in Seq(PactLinkKinds)
        /\ Len(SubSeq(links, n + 1, Len(links))) = Len(links) - n
        /\ \A k \in 1 .. Len(links) - n : SubSeq(links, n + 1, Len(links))[k] = links[n + k]
    BY <1>1, <1>3, <2>1
  <2> QED
    BY <1>2, <2>2
<1>8. \A k \in 1 .. n : ~Fetchable(links[k]) /\ ~fetched'[Len(done) + k].ok
  BY <1>1, <1>5, <1>6
<1>9. \/ n = Len(links) /\ pc' = "done" /\ result' = Ok("pacts")
      \/ n < Len(links) /\ pc' = "pact" /\ result' = result /\ Fetchable(todo'[1])
  BY <1>1, <1>2, <1>3, <1>7
<1> QED
  BY <1>1, <1>5, <1>7, <1>8, <1>9

\* The answers that ParseBrokerResponse takes for good, and its outcomes.
LEMMA ParsedAnswers ==
  ASSUME NEW answer \in Answers
  PROVE  /\ ParseBrokerResponse(answer) \in Outcomes
         /\ ParseBrokerResponse(answer).ok <=> answer = "json"
         /\ ParseBrokerResponse(answer) # Ok("pacts")
         /\ \A valid \in BOOLEAN : /\ Loaded(answer, valid) \in Outcomes
                                   /\ Loaded(answer, valid).ok <=> answer = "json" /\ valid
BY DEF Answers, ParseBrokerResponse, Outcomes, Ok, Err, Loaded

-----------------------------------------------------------------------------
(* Where a call goes.                                                      *)

\* A step of the client that may fail gives a value or an error to return.
IsStep(step) == step.ok \in BOOLEAN /\ (step.ok \/ step \in Outcomes)

LEMMA StepsOfLinks ==
  /\ \A link : IsStep(FetchUrl(link)) /\ IsStep(SendTo(link)) /\ IsStep(PostTo(link))
  /\ \A document, name : IsStep(FindLink(document, name))
  /\ IsStep(ProviderLink) /\ IsStep(ResultsLink)
<1>1. /\ \A link : IsStep(FetchUrl(link)) /\ IsStep(SendTo(link)) /\ IsStep(PostTo(link))
      /\ \A document, name : IsStep(FindLink(document, name))
  BY DEF IsStep, FetchUrl, SendTo, PostTo, FindLink, Ok, Err, Outcomes
<1>2. IsStep(ProviderLink)
  BY <1>1 DEF ProviderLink
<1>3. IsStep(ResultsLink)
  <2>1. IsStep(Err("LinkError"))
    BY DEF IsStep, Err, Outcomes
  <2> QED
    BY <1>1, <2>1 DEF ResultsLink
<1> QED
  BY <1>1, <1>2, <1>3

\* Then sends the next request or returns the error.
LEMMA ThenGoesOn ==
  ASSUME NEW step, NEW next, IsStep(step), Then(step, next)
  PROVE  /\ todo' = todo /\ fetched' = fetched
         /\ \/ step.ok /\ pc' = next /\ result' = result
            \/ ~step.ok /\ pc' = "done" /\ result' \in Outcomes /\ ~result'.ok
BY DEF Then, Request, Finish, IsStep

LEMMA PublishingGoesOn ==
  /\ GoForResults =>
       /\ todo' = todo /\ fetched' = fetched
       /\ \/ pc' = "results" /\ result' = result
          \/ pc' = "done" /\ result' \in Outcomes /\ ~result'.ok
  /\ GoForTags =>
       /\ todo' = todo /\ fetched' = fetched
       /\ \/ pc' = "tagProvider" /\ job.tags > 0 /\ result' = result
          \/ pc' = "results" /\ ~(job.tags > 0) /\ result' = result
          \/ pc' = "done" /\ result' \in Outcomes /\ ~result'.ok
  /\ GoForBranch =>
       /\ todo' = todo /\ fetched' = fetched
       /\ \/ pc' = "branchProvider" /\ job.branch /\ result' = result
          \/ pc' = "tagProvider" /\ ~job.branch /\ job.tags > 0 /\ result' = result
          \/ pc' = "results" /\ ~job.branch /\ ~(job.tags > 0) /\ result' = result
          \/ pc' = "done" /\ result' \in Outcomes /\ ~result'.ok
<1>1. ASSUME GoForResults
      PROVE  /\ todo' = todo /\ fetched' = fetched
             /\ \/ pc' = "results" /\ result' = result
                \/ pc' = "done" /\ result' \in Outcomes /\ ~result'.ok
  BY <1>1, StepsOfLinks, ThenGoesOn DEF GoForResults
<1>2. ASSUME GoForTags
      PROVE  /\ todo' = todo /\ fetched' = fetched
             /\ \/ pc' = "tagProvider" /\ job.tags > 0 /\ result' = result
                \/ pc' = "results" /\ ~(job.tags > 0) /\ result' = result
                \/ pc' = "done" /\ result' \in Outcomes /\ ~result'.ok
  <2>1. CASE job.tags > 0
    <3>1. Then(ProviderLink, "tagProvider")
      BY <1>2, <2>1 DEF GoForTags
    <3> QED
      BY <2>1, <3>1, StepsOfLinks, ThenGoesOn
  <2>2. CASE ~(job.tags > 0)
    BY <1>1, <1>2, <2>2 DEF GoForTags
  <2> QED
    BY <2>1, <2>2
<1>3. ASSUME GoForBranch
      PROVE  /\ todo' = todo /\ fetched' = fetched
             /\ \/ pc' = "branchProvider" /\ job.branch /\ result' = result
                \/ pc' = "tagProvider" /\ ~job.branch /\ job.tags > 0 /\ result' = result
                \/ pc' = "results" /\ ~job.branch /\ ~(job.tags > 0) /\ result' = result
                \/ pc' = "done" /\ result' \in Outcomes /\ ~result'.ok
  <2>1. CASE job.branch
    <3>1. Then(ProviderLink, "branchProvider")
      BY <1>3, <2>1 DEF GoForBranch
    <3> QED
      BY <2>1, <3>1, StepsOfLinks, ThenGoesOn
  <2>2. CASE ~job.branch
    BY <1>2, <1>3, <2>2 DEF GoForBranch
  <2> QED
    BY <2>1, <2>2
<1> QED
  BY <1>1, <1>2, <1>3

\* The answer to a request is not good: the call returns it as its error.
LEMMA BadAnswerEnds ==
  ASSUME NEW answer \in Answers, ~ParseBrokerResponse(answer).ok,
         Finish(ParseBrokerResponse(answer))
  PROVE  /\ todo' = todo /\ fetched' = fetched /\ pc' = "done"
         /\ result' \in Outcomes /\ ~result'.ok
BY ParsedAnswers DEF Finish

\* What a document that was fetched leads to.
LEMMA DocumentGoesOn ==
  ASSUME NEW document, NEW name, NEW next, NEW found, IsStep(found),
         LET link == FindLink(document, name) IN
           Then(IF link.ok THEN found ELSE link, next)
  PROVE  /\ todo' = todo /\ fetched' = fetched
         /\ \/ pc' = next /\ result' = result
            \/ pc' = "done" /\ result' \in Outcomes /\ ~result'.ok
<1> DEFINE link == FindLink(document, name)
           step == IF link.ok THEN found ELSE link
<1>1. IsStep(step)
  BY StepsOfLinks
<1>2. Then(step, next)
  OBVIOUS
<1> HIDE DEF step
<1> QED
  BY <1>1, <1>2, ThenGoesOn

-----------------------------------------------------------------------------
(* Types, and the place of a call.                                         *)

LEMMA InitControl == Init => Control
<1> SUFFICES ASSUME Init PROVE Control
  OBVIOUS
<1>1. Err("none") \in Outcomes /\ ~Err("none").ok
  BY DEF Outcomes, Err
<1>2. /\ job \in Jobs /\ pc = "start" /\ attempt = 1 /\ result = Err("none")
      /\ fetched = <<>> /\ listed = <<>> /\ told = {} /\ todo = [k \in 1 .. job.tags |-> k]
  BY DEF Init
<1>3. attempt \in 1 .. Retries
  BY <1>2, BrokerAssumption
<1>4. PlaceIsRight
  BY <1>1, <1>2 DEF PlaceIsRight, FetchRequests, PublishRequests
<1>5. fetched \in Seq(Outcomes) /\ listed \in Seq(PactLinkKinds \cup {"garbage"})
  BY <1>2
<1> QED
  BY <1>1, <1>2, <1>3, <1>4, <1>5 DEF Control

\* A call that ends is in its place.
LEMMA EndIsControl ==
  ASSUME Control, job' = job, attempt' = 1, pc' = "done", result' \in Outcomes,
         fetched' \in Seq(Outcomes), listed' \in Seq(PactLinkKinds \cup {"garbage"}),
         told' \subseteq [link : Nat, answer : Answers, valid : BOOLEAN]
  PROVE  Control'
<1>1. PlaceIsRight'
  BY DEF PlaceIsRight, FetchRequests, PublishRequests
<1>2. attempt' \in 1 .. Retries
  BY BrokerAssumption
<1> QED
  BY <1>1, <1>2 DEF Control

\* So is one that goes on to a request of which nothing but the job is said.
LEMMA FetchIsControl ==
  ASSUME Control, job' = job, attempt' = 1, pc' \in {"index", "entry"}, job.op # "publish",
         result' = result, ~result.ok, fetched' = fetched, listed' = listed, told' = told
  PROVE  Control'
<1>1. PlaceIsRight'
  BY DEF PlaceIsRight, FetchRequests, PublishRequests
<1>2. attempt' \in 1 .. Retries
  BY BrokerAssumption
<1> QED
  BY <1>1, <1>2 DEF Control, FetchRequests

LEMMA PublishIsControl ==
  ASSUME Control, job' = job, attempt' = 1, pc' \in PublishRequests, job.op = "publish",
         result' = result, ~result.ok, fetched' = fetched, listed' = listed, told' = told,
         pc' \in {"branchProvider", "branch"} => job.branch,
         pc' \in {"tagProvider", "tag"} => job.tags > 0,
         pc' \in {"branchProvider", "branch", "tagProvider"} => todo' = [k \in 1 .. job.tags |-> k],
         pc' = "tag" => /\ todo' \in Seq(1 .. job.tags) /\ Len(todo') > 0
                        /\ \A k \in 1 .. Len(todo') : todo'[k] = job.tags - Len(todo') + k
  PROVE  Control'
<1>1. PlaceIsRight'
  BY DEF PlaceIsRight, FetchRequests, PublishRequests
<1>2. attempt' \in 1 .. Retries
  BY BrokerAssumption
<1> QED
  BY <1>1, <1>2 DEF Control, PublishRequests

\* So is one that follows the links of pacts.
LEMMA FollowIsControl ==
  ASSUME Control, job' = job, attempt' = 1, job.op # "publish", ~result.ok,
         NEW done \in Seq(Outcomes), NEW links \in Seq(PactLinkKinds), FollowPacts(done, links),
         listed' \in Seq(PactLinkKinds \cup {"garbage"}), Len(links) <= Len(listed'),
         told' \subseteq [link : Nat, answer : Answers, valid : BOOLEAN]
  PROVE  Control'
<1>1. PICK n \in 0 .. Len(links) :
        /\ fetched' \in Seq(Outcomes)
        /\ todo' \in Seq(PactLinkKinds) /\ Len(todo') = Len(links) - n
        /\ \/ n = Len(links) /\ pc' = "done" /\ result' = Ok("pacts")
           \/ n < Len(links) /\ pc' = "pact" /\ result' = result /\ Fetchable(todo'[1])
  BY FollowsTheLinks
<1>2. Len(links) \in Nat
  OBVIOUS
<1>3. Ok("pacts") \in Outcomes
  BY DEF Outcomes
<1>4. attempt' \in 1 .. Retries
  BY BrokerAssumption
<1>5. PlaceIsRight'
  <2>1. Len(listed') \in Nat /\ Len(todo') <= Len(listed')
    BY <1>1, <1>2
  <2> QED
    BY <1>1, <1>2, <2>1 DEF PlaceIsRight, FetchRequests, PublishRequests
<1>6. result' \in Outcomes /\ pc' \in {"pact", "done"}
  BY <1>1, <1>3 DEF Control
<1> QED
  BY <1>1, <1>4, <1>5, <1>6 DEF Control, FetchRequests

\* The list of tags that are still to be put.
LEMMA TagsInPlace ==
  ASSUME NEW m \in Nat, NEW list, list = [k \in 1 .. m |-> k]
  PROVE  /\ list \in Seq(1 .. m) /\ Len(list) = m
         /\ \A k \in 1 .. Len(list) : list[k] = m - Len(list) + k
OBVIOUS

LEMMA RestInPlace ==
  ASSUME NEW m \in Nat, NEW list \in Seq(1 .. m), Len(list) > 1,
         \A k \in 1 .. Len(list) : list[k] = m - Len(list) + k
  PROVE  /\ Tail(list) \in Seq(1 .. m) /\ Len(Tail(list)) = Len(list) - 1
         /\ \A k \in 1 .. Len(Tail(list)) : Tail(list)[k] = m - Len(Tail(list)) + k
         /\ Tail(list)[1] = list[1] + 1
<1>1. Tail(list) \in Seq(1 .. m) /\ Len(Tail(list)) = Len(list) - 1 /\ Len(list) \in Nat
  OBVIOUS
<1>2. \A k \in 1 .. Len(Tail(list)) : Tail(list)[k] = list[k + 1]
  OBVIOUS
<1>3. \A k \in 1 .. Len(Tail(list)) : k + 1 \in 1 .. Len(list)
  BY <1>1
<1>4. \A k \in 1 .. Len(Tail(list)) : list[k + 1] = m - Len(Tail(list)) + k
  BY <1>1, <1>3
<1>5. \A k \in 1 .. Len(Tail(list)) : Tail(list)[k] = m - Len(Tail(list)) + k
  BY <1>2, <1>4
<1>6. 1 \in 1 .. Len(Tail(list)) /\ 1 \in 1 .. Len(list)
  BY <1>1
<1>7. Tail(list)[1] = list[1] + 1
  BY <1>1, <1>5, <1>6
<1> QED
  BY <1>1, <1>5, <1>7

LEMMA StepControl ==
  ASSUME Control, Next
  PROVE  Control'
<1> USE DEF Control
<1>j. /\ job.op \in {"latest", "dynamic", "publish"} /\ job.branch \in BOOLEAN /\ job.tags \in Nat
      /\ pc \in FetchRequests \cup {"start"} => ~result.ok
      /\ pc \in PublishRequests => ~result.ok
  BY JobsAssumption DEF PlaceIsRight, FetchRequests, PublishRequests
<1>1. CASE Start
  <2>1. pc = "start" /\ job' = job /\ attempt' = attempt /\ listed' = listed /\ told' = told
        /\ todo = [k \in 1 .. job.tags |-> k] /\ ~result.ok
    BY <1>1, <1>j DEF Start, PlaceIsRight
  <2>2. CASE job.op = "publish"
    <3>1. GoForBranch
      BY <1>1, <2>2 DEF Start
    <3>2. /\ todo' = todo /\ fetched' = fetched
          /\ \/ pc' = "branchProvider" /\ job.branch /\ result' = result
             \/ pc' = "tagProvider" /\ ~job.branch /\ job.tags > 0 /\ result' = result
             \/ pc' = "results" /\ ~job.branch /\ ~(job.tags > 0) /\ result' = result
             \/ pc' = "done" /\ result' \in Outcomes /\ ~result'.ok
      BY <3>1, PublishingGoesOn
    <3>3. PlaceIsRight'
      BY <2>1, <2>2, <3>2 DEF PlaceIsRight, FetchRequests, PublishRequests
    <3> QED
      BY <2>1, <3>2, <3>3 DEF PublishRequests
  <2>3. CASE job.op # "publish"
    <3>1. pc' = "index" /\ result' = result /\ fetched' = fetched
      BY <1>1, <2>3 DEF Start, Request
    <3>2. PlaceIsRight'
      BY <2>1, <2>3, <3>1 DEF PlaceIsRight, FetchRequests, PublishRequests
    <3> QED
      BY <2>1, <3>1, <3>2 DEF FetchRequests
  <2> QED
    BY <2>2, <2>3
<1>2. CASE SendAgain
  <2>1. /\ job' = job /\ pc' = pc /\ todo' = todo /\ fetched' = fetched /\ result' = result
        /\ listed' = listed /\ told' = told
        /\ attempt' = attempt + 1 /\ attempt # Retries /\ pc # "start"
    BY <1>2 DEF SendAgain, Final
  <2>2. attempt' \in 1 .. Retries
    BY <2>1, BrokerAssumption
  <2>3. PlaceIsRight'
    BY <2>1 DEF PlaceIsRight
  <2> QED
    BY <2>1, <2>2, <2>3
<1>u. CASE NeverAnswered
  <2>1. /\ pc' = "unanswered" /\ job' = job /\ attempt' = attempt /\ fetched' = fetched
        /\ result' = result /\ listed' = listed /\ told' = told /\ ~result.ok
    BY <1>u DEF NeverAnswered, PlaceIsRight
  <2>2. PlaceIsRight'
    BY <2>1 DEF PlaceIsRight, FetchRequests, PublishRequests
  <2> QED
    BY <2>1, <2>2
<1>3. ASSUME NEW answer \in Answers, IndexFetched(answer)
      PROVE  Control'
  <2>1. pc = "index" /\ job' = job /\ attempt' = 1 /\ listed' = listed /\ told' = told /\ ~result.ok
        /\ job.op # "publish"
    BY <1>3, <1>j DEF IndexFetched, Answered, FetchRequests, PlaceIsRight
  <2>2. CASE ParseBrokerResponse(answer).ok
    <3>1. LET link == FindLink(pathInfo', EntryLink(job.op)) IN
            Then(IF link.ok THEN FetchUrl(link.value) ELSE link, "entry")
      BY <1>3, <2>2 DEF IndexFetched
    <3>2. /\ todo' = todo /\ fetched' = fetched
          /\ \/ pc' = "entry" /\ result' = result
             \/ pc' = "done" /\ result' \in Outcomes /\ ~result'.ok
      BY <3>1, DocumentGoesOn, StepsOfLinks
    <3> QED
      BY <2>1, <3>2, EndIsControl, FetchIsControl
  <2>3. CASE ~ParseBrokerResponse(answer).ok
    BY <1>3, <2>1, <2>3, BadAnswerEnds, EndIsControl DEF IndexFetched
  <2> QED
    BY <2>2, <2>3
<1>4. ASSUME NEW answer \in Answers, LatestFetched(answer)
      PROVE  Control'
  <2>1. pc = "entry" /\ job' = job /\ attempt' = 1 /\ told' = told /\ ~result.ok /\ job.op # "publish"
    BY <1>4, <1>j DEF LatestFetched, Answered, FetchRequests
  <2>2. CASE ParseBrokerResponse(answer).ok
    <3>1. PICK document \in Documents["latest"], list \in Lists["latest"] :
            IF IterLinks(document, list).ok
            THEN listed' = list /\ FollowPacts(<<>>, list)
            ELSE Finish(IterLinks(document, list)) /\ UNCHANGED listed
      BY <1>4, <2>2 DEF LatestFetched
    <3>2. list \in Seq(PactLinkKinds) /\ list \in Seq(PactLinkKinds \cup {"garbage"})
      BY ListsAssumption
    <3>3. CASE IterLinks(document, list).ok
      <4>1. <<>> \in Seq(Outcomes)
        OBVIOUS
      <4>2. listed' = list /\ FollowPacts(<<>>, list)
        BY <3>1, <3>3
      <4>3. Len(list) <= Len(listed')
        BY <3>2, <4>2
      <4>4. told' \subseteq [link : Nat, answer : Answers, valid : BOOLEAN]
        BY <2>1
      <4> HIDE DEF Control
      <4> QED
        BY <2>1, <3>2, <4>1, <4>2, <4>3, <4>4, FollowIsControl
    <3>4. CASE ~IterLinks(document, list).ok
      <4>1. IterLinks(document, list) \in Outcomes
        BY <3>4 DEF IterLinks, Ok, Err, Outcomes
      <4> QED
        BY <2>1, <3>1, <3>4, <4>1, EndIsControl DEF Finish
    <3> QED
      BY <3>3, <3>4
  <2>3. CASE ~ParseBrokerResponse(answer).ok
    BY <1>4, <2>1, <2>3, BadAnswerEnds, EndIsControl DEF LatestFetched
  <2> QED
    BY <2>2, <2>3
<1>5. ASSUME NEW answer \in Answers, EntryFetched(answer)
      PROVE  Control'
  <2>1. pc = "entry" /\ job' = job /\ attempt' = 1 /\ listed' = listed /\ told' = told /\ ~result.ok
        /\ job.op = "dynamic"
    BY <1>5, <1>j DEF EntryFetched, Answered, FetchRequests
  <2>2. CASE ParseBrokerResponse(answer).ok
    <3>1. LET link == FindLink(pathInfo', "self") IN
            Then(IF link.ok THEN SendTo(link.value) ELSE link, "selection")
      BY <1>5, <2>2 DEF EntryFetched
    <3>2. /\ todo' = todo /\ fetched' = fetched
          /\ \/ pc' = "selection" /\ result' = result
             \/ pc' = "done" /\ result' \in Outcomes /\ ~result'.ok
      BY <3>1, DocumentGoesOn, StepsOfLinks
    <3>3. CASE pc' = "selection" /\ result' = result
      <4>1. PlaceIsRight'
        BY <2>1, <3>3 DEF PlaceIsRight, FetchRequests, PublishRequests
      <4>2. attempt' \in 1 .. Retries
        BY <2>1, BrokerAssumption
      <4> QED
        BY <2>1, <3>2, <3>3, <4>1, <4>2 DEF FetchRequests
    <3> QED
      BY <2>1, <3>2, <3>3, EndIsControl
  <2>3. CASE ~ParseBrokerResponse(answer).ok
    BY <1>5, <2>1, <2>3, BadAnswerEnds, EndIsControl DEF EntryFetched
  <2> QED
    BY <2>2, <2>3
<1>6. ASSUME NEW answer \in Answers, SelectionPosted(answer)
      PROVE  Control'
  <2>1. pc = "selection" /\ job' = job /\ attempt' = 1 /\ told' = told /\ ~result.ok /\ job.op # "publish"
    BY <1>6, <1>j DEF SelectionPosted, Answered, FetchRequests, PlaceIsRight
  <2>2. CASE ParseBrokerResponse(answer).ok
    <3>1. PICK list \in Lists["selection"] \cup {<<"garbage">>} :
            IF list \in {<<>>, <<"garbage">>}
            THEN Finish(Err("NotFound")) /\ listed' = list
            ELSE IF \E k \in DOMAIN list : list[k] = "noSelf"
                 THEN Finish(Err("LinkError")) /\ UNCHANGED listed
                 ELSE listed' = list /\ FollowPacts(<<>>, list)
      BY <1>6, <2>2 DEF SelectionPosted
    <3>2. list \in Seq(PactLinkKinds \cup {"garbage"})
          /\ (list # <<"garbage">> => list \in Seq(PactLinkKinds))
      <4>1. <<"garbage">> \in Seq(PactLinkKinds \cup {"garbage"})
        OBVIOUS
      <4>2. list # <<"garbage">> => list \in Seq(PactLinkKinds)
        BY ListsAssumption
      <4>3. list # <<"garbage">> => list \in Seq(PactLinkKinds \cup {"garbage"})
        BY <4>2
      <4> QED
        BY <4>1, <4>2, <4>3
    <3>3. Err("NotFound") \in Outcomes /\ Err("LinkError") \in Outcomes /\ <<>> \in Seq(Outcomes)
      BY DEF Outcomes
    <3>4. CASE list \in {<<>>, <<"garbage">>}
      BY <2>1, <3>1, <3>2, <3>3, <3>4, EndIsControl DEF Finish
    <3>5. CASE list \notin {<<>>, <<"garbage">>} /\ \E k \in DOMAIN list : list[k] = "noSelf"
      BY <2>1, <3>1, <3>3, <3>5, EndIsControl DEF Finish
    <3>6. CASE list \notin {<<>>, <<"garbage">>} /\ ~ \E k \in DOMAIN list : list[k] = "noSelf"
      <4>1. listed' = list /\ FollowPacts(<<>>, list)
        BY <3>1, <3>6
      <4>2. Len(list) <= Len(listed')
        BY <3>2, <3>6, <4>1
      <4>3. told' \subseteq [link : Nat, answer : Answers, valid : BOOLEAN]
        BY <2>1
      <4> HIDE DEF Control
      <4> QED
        BY <2>1, <3>2, <3>3, <3>6, <4>1, <4>2, <4>3, FollowIsControl
    <3> QED
      BY <3>4, <3>5, <3>6
  <2>3. CASE ~ParseBrokerResponse(answer).ok
    BY <1>6, <2>1, <2>3, BadAnswerEnds, EndIsControl DEF SelectionPosted
  <2> QED
    BY <2>2, <2>3
<1>7. ASSUME NEW answer \in Answers, PactFetched(answer)
      PROVE  Control'
  <2>1. /\ pc = "pact" /\ job' = job /\ attempt' = 1 /\ listed' = listed /\ ~result.ok
        /\ job.op # "publish" /\ todo \in Seq(PactLinkKinds) /\ Len(todo) > 0
    BY <1>7, <1>j DEF PactFetched, Answered, FetchRequests, PlaceIsRight
  <2>2. PICK valid \in BOOLEAN :
          /\ told' = told \cup {[link |-> Len(listed) - Len(todo) + 1, answer |-> answer, valid |-> valid]}
          /\ FollowPacts(Append(fetched, Loaded(answer, valid)), Tail(todo))
    BY <1>7 DEF PactFetched
  <2>3. Append(fetched, Loaded(answer, valid)) \in Seq(Outcomes)
    BY ParsedAnswers
  <2>4. Tail(todo) \in Seq(PactLinkKinds) /\ Len(Tail(todo)) = Len(todo) - 1 /\ Len(todo) \in Nat
    BY <2>1
  <2>5. Len(listed) \in Nat /\ Len(todo) <= Len(listed)
    BY <2>1 DEF PlaceIsRight
  <2>6. told' \subseteq [link : Nat, answer : Answers, valid : BOOLEAN]
    <3>1. Len(listed) - Len(todo) + 1 \in Nat
      BY <2>4, <2>5
    <3> QED
      BY <2>2, <3>1
  <2>7. Len(Tail(todo)) <= Len(listed')
    BY <2>1, <2>4, <2>5
  <2>8. listed' \in Seq(PactLinkKinds \cup {"garbage"})
    BY <2>1
  <2> HIDE DEF Control
  <2> QED
    BY <2>1, <2>2, <2>3, <2>4, <2>6, <2>7, <2>8, FollowIsControl
<1>8. ASSUME NEW answer \in Answers, NEW at, NEW name, NEW next,
             \/ at = "branchProvider" /\ next = "branch"
             \/ at = "tagProvider" /\ next = "tag",
             ProviderFetched(answer, at, name, next)
      PROVE  Control'
  <2>1. /\ pc = at /\ job' = job /\ attempt' = 1 /\ listed' = listed /\ told' = told /\ ~result.ok
        /\ job.op = "publish" /\ todo = [k \in 1 .. job.tags |-> k]
        /\ at = "branchProvider" => job.branch
        /\ at = "tagProvider" => job.tags > 0
    BY <1>8, <1>j DEF ProviderFetched, Answered, PublishRequests, PlaceIsRight
  <2>2. CASE ParseBrokerResponse(answer).ok
    <3>1. LET found == FindLink(pathInfo', name) IN
            Then(IF found.ok THEN SendTo(found.value) ELSE found, next)
      BY <1>8, <2>2 DEF ProviderFetched
    <3>2. /\ todo' = todo /\ fetched' = fetched
          /\ \/ pc' = next /\ result' = result
             \/ pc' = "done" /\ result' \in Outcomes /\ ~result'.ok
      BY <3>1, DocumentGoesOn, StepsOfLinks
    <3>3. CASE pc' = next /\ result' = result
      <4>1. /\ todo' \in Seq(1 .. job.tags) /\ Len(todo') = job.tags
            /\ \A k \in 1 .. Len(todo') : todo'[k] = job.tags - Len(todo') + k
        BY <1>j, <2>1, <3>2, TagsInPlace
      <4> QED
        BY <1>8, <2>1, <3>2, <3>3, <4>1, PublishIsControl DEF PublishRequests
    <3> QED
      BY <2>1, <3>2, <3>3, EndIsControl
  <2>3. CASE ~ParseBrokerResponse(answer).ok
    BY <1>8, <2>1, <2>3, BadAnswerEnds, EndIsControl DEF ProviderFetched
  <2> QED
    BY <2>2, <2>3
<1>9. ASSUME NEW answer \in Answers, BranchPut(answer)
      PROVE  Control'
  <2>1. /\ pc = "branch" /\ job' = job /\ attempt' = 1 /\ listed' = listed /\ told' = told /\ ~result.ok
        /\ job.op = "publish" /\ todo = [k \in 1 .. job.tags |-> k]
    BY <1>9, <1>j DEF BranchPut, Answered, PublishRequests, PlaceIsRight
  <2>2. CASE ParseBrokerResponse(answer).ok
    <3>1. /\ todo' = todo /\ fetched' = fetched
          /\ \/ pc' = "tagProvider" /\ job.tags > 0 /\ result' = result
             \/ pc' = "results" /\ result' = result
             \/ pc' = "done" /\ result' \in Outcomes /\ ~result'.ok
      BY <1>9, <2>2, PublishingGoesOn DEF BranchPut
    <3> QED
      BY <2>1, <3>1, EndIsControl, PublishIsControl DEF PublishRequests
  <2>3. CASE ~ParseBrokerResponse(answer).ok
    BY <1>9, <2>1, <2>3, BadAnswerEnds, EndIsControl DEF BranchPut
  <2> QED
    BY <2>2, <2>3
<1>10. ASSUME NEW answer \in Answers, TagPut(answer)
      PROVE  Control'
  <2>1. /\ pc = "tag" /\ job' = job /\ attempt' = 1 /\ listed' = listed /\ told' = told /\ ~result.ok
        /\ job.op = "publish" /\ job.tags > 0 /\ todo \in Seq(1 .. job.tags) /\ Len(todo) > 0
        /\ \A k \in 1 .. Len(todo) : todo[k] = job.tags - Len(todo) + k
    BY <1>10, <1>j DEF TagPut, Answered, PublishRequests, PlaceIsRight
  <2>2. CASE ParseBrokerResponse(answer).ok /\ Len(todo) > 1
    <3>1. todo' = Tail(todo) /\ pc' = pc /\ fetched' = fetched /\ result' = result
      BY <1>10, <2>2 DEF TagPut
    <3>2. /\ todo' \in Seq(1 .. job.tags) /\ Len(todo') = Len(todo) - 1 /\ Len(todo) \in Nat
          /\ \A k \in 1 .. Len(todo') : todo'[k] = job.tags - Len(todo') + k
      <4>1. /\ Tail(todo) \in Seq(1 .. job.tags) /\ Len(Tail(todo)) = Len(todo) - 1
            /\ \A k \in 1 .. Len(Tail(todo)) : Tail(todo)[k] = job.tags - Len(Tail(todo)) + k
        BY <1>j, <2>1, <2>2, RestInPlace
      <4> QED
        BY <2>1, <3>1, <4>1
    <3> QED
      BY <2>1, <2>2, <3>1, <3>2, PublishIsControl DEF PublishRequests
  <2>3. CASE ParseBrokerResponse(answer).ok /\ ~(Len(todo) > 1)
    <3>1. /\ todo' = todo /\ fetched' = fetched
          /\ \/ pc' = "results" /\ result' = result
             \/ pc' = "done" /\ result' \in Outcomes /\ ~result'.ok
      BY <1>10, <2>3, PublishingGoesOn DEF TagPut
    <3> QED
      BY <2>1, <3>1, EndIsControl, PublishIsControl DEF PublishRequests
  <2>4. CASE ~ParseBrokerResponse(answer).ok
    BY <1>10, <2>1, <2>4, BadAnswerEnds, EndIsControl DEF TagPut
  <2> QED
    BY <2>2, <2>3, <2>4
<1>11. ASSUME NEW answer \in Answers, ResultsPosted(answer)
      PROVE  Control'
  <2>1. job' = job /\ attempt' = 1 /\ listed' = listed /\ told' = told
    BY <1>11 DEF ResultsPosted, Answered
  <2>2. pc' = "done" /\ result' \in Outcomes /\ fetched' = fetched
    BY <1>11, ParsedAnswers DEF ResultsPosted, Finish
  <2> QED
    BY <2>1, <2>2, EndIsControl
<1> QED
  BY <1>1, <1>2, <1>u, <1>3, <1>4, <1>5, <1>6, <1>7, <1>8, <1>9, <1>10, <1>11 DEF Next

-----------------------------------------------------------------------------
(* The pacts are accounted for.                                            *)

\* A list of links is followed, or nothing becomes of pacts.
LEMMA StepKinds ==
  ASSUME Control, Next
  PROVE  \/ SendAgain \/ NeverAnswered
         \/ \E answer \in Answers : PactFetched(answer)
         \/ /\ pc \in {"entry", "selection"} /\ told' = told
            /\ \E list \in Seq(PactLinkKinds) : listed' = list /\ FollowPacts(<<>>, list)
         \/ pc \notin {"pact", "done", "unanswered"} /\ pc' # "pact" /\ told' = told /\ result' # Ok("pacts")
<1> DEFINE Elsewhere == pc \notin {"pact", "done", "unanswered"} /\ pc' # "pact" /\ told' = told /\ result' # Ok("pacts")
           Follows == \E list \in Seq(PactLinkKinds) : listed' = list /\ FollowPacts(<<>>, list)
<1>0. /\ Ok("pacts").ok
      /\ pc # "done" => result # Ok("pacts")
      /\ \A answer \in Answers : ParseBrokerResponse(answer) # Ok("pacts")
  BY ParsedAnswers DEF Control, PlaceIsRight, Ok
<1>1. CASE Start
  <2>1. pc = "start" /\ told' = told
    BY <1>1 DEF Start
  <2>2. CASE job.op = "publish"
    <3>1. GoForBranch
      BY <1>1, <2>2 DEF Start
    <3> QED
      BY <1>0, <2>1, <3>1, PublishingGoesOn
  <2>3. CASE job.op # "publish"
    BY <1>0, <1>1, <2>1, <2>3 DEF Start, Request
  <2> QED
    BY <2>2, <2>3
<1>3. ASSUME NEW answer \in Answers, IndexFetched(answer)
      PROVE  Elsewhere
  <2>1. pc = "index" /\ told' = told
    BY <1>3 DEF IndexFetched
  <2>2. CASE ParseBrokerResponse(answer).ok
    <3>1. LET link == FindLink(pathInfo', EntryLink(job.op)) IN
            Then(IF link.ok THEN FetchUrl(link.value) ELSE link, "entry")
      BY <1>3, <2>2 DEF IndexFetched
    <3>2. \/ pc' = "entry" /\ result' = result
          \/ pc' = "done" /\ ~result'.ok
      BY <3>1, DocumentGoesOn, StepsOfLinks
    <3> QED
      BY <1>0, <2>1, <3>2
  <2>3. CASE ~ParseBrokerResponse(answer).ok
    BY <1>0, <1>3, <2>1, <2>3 DEF IndexFetched, Finish
  <2> QED
    BY <2>2, <2>3
<1>4. ASSUME NEW answer \in Answers, LatestFetched(answer)
      PROVE  Elsewhere \/ (pc = "entry" /\ told' = told /\ Follows)
  <2>1. pc = "entry" /\ told' = told
    BY <1>4 DEF LatestFetched
  <2>2. CASE ParseBrokerResponse(answer).ok
    <3>1. PICK document \in Documents["latest"], list \in Lists["latest"] :
            IF IterLinks(document, list).ok
            THEN listed' = list /\ FollowPacts(<<>>, list)
            ELSE Finish(IterLinks(document, list)) /\ UNCHANGED listed
      BY <1>4, <2>2 DEF LatestFetched
    <3>2. list \in Seq(PactLinkKinds)
      BY ListsAssumption
    <3>3. CASE IterLinks(document, list).ok
      BY <2>1, <3>1, <3>2, <3>3
    <3>4. CASE ~IterLinks(document, list).ok
      BY <1>0, <2>1, <3>1, <3>4 DEF Finish
    <3> QED
      BY <3>3, <3>4
  <2>3. CASE ~ParseBrokerResponse(answer).ok
    BY <1>0, <1>4, <2>1, <2>3 DEF LatestFetched, Finish
  <2> QED
    BY <2>2, <2>3
<1>5. ASSUME NEW answer \in Answers, EntryFetched(answer)
      PROVE  Elsewhere
  <2>1. pc = "entry" /\ told' = told
    BY <1>5 DEF EntryFetched
  <2>2. CASE ParseBrokerResponse(answer).ok
    <3>1. LET link == FindLink(pathInfo', "self") IN
            Then(IF link.ok THEN SendTo(link.value) ELSE link, "selection")
      BY <1>5, <2>2 DEF EntryFetched
    <3>2. \/ pc' = "selection" /\ result' = result
          \/ pc' = "done" /\ ~result'.ok
      BY <3>1, DocumentGoesOn, StepsOfLinks
    <3> QED
      BY <1>0, <2>1, <3>2
  <2>3. CASE ~ParseBrokerResponse(answer).ok
    BY <1>0, <1>5, <2>1, <2>3 DEF EntryFetched, Finish
  <2> QED
    BY <2>2, <2>3
<1>6. ASSUME NEW answer \in Answers, SelectionPosted(answer)
      PROVE  Elsewhere \/ (pc = "selection" /\ told' = told /\ Follows)
  <2>1. pc = "selection" /\ told' = told
    BY <1>6 DEF SelectionPosted
  <2>2. CASE ParseBrokerResponse(answer).ok
    <3>1. PICK list \in Lists["selection"] \cup {<<"garbage">>} :
            IF list \in {<<>>, <<"garbage">>}
            THEN Finish(Err("NotFound")) /\ listed' = list
            ELSE IF \E k \in DOMAIN list : list[k] = "noSelf"
                 THEN Finish(Err("LinkError")) /\ UNCHANGED listed
                 ELSE listed' = list /\ FollowPacts(<<>>, list)
      BY <1>6, <2>2 DEF SelectionPosted
    <3>2. list # <<"garbage">> => list \in Seq(PactLinkKinds)
      BY ListsAssumption
    <3>3. Err("NotFound") # Ok("pacts") /\ Err("LinkError") # Ok("pacts")
      BY DEF Ok, Err
    <3> QED
      BY <2>1, <3>1, <3>2, <3>3 DEF Finish
  <2>3. CASE ~ParseBrokerResponse(answer).ok
    BY <1>0, <1>6, <2>1, <2>3 DEF SelectionPosted, Finish
  <2> QED
    BY <2>2, <2>3
<1>8. ASSUME NEW answer \in Answers, NEW at \in {"branchProvider", "tagProvider"}, NEW name,
             NEW next \in {"branch", "tag"}, ProviderFetched(answer, at, name, next)
      PROVE  Elsewhere
  <2>1. pc = at /\ told' = told
    BY <1>8 DEF ProviderFetched
  <2>2. CASE ParseBrokerResponse(answer).ok
    <3>1. LET found == FindLink(pathInfo', name) IN
            Then(IF found.ok THEN SendTo(found.value) ELSE found, next)
      BY <1>8, <2>2 DEF ProviderFetched
    <3>2. \/ pc' = next /\ result' = result
          \/ pc' = "done" /\ ~result'.ok
      BY <3>1, DocumentGoesOn, StepsOfLinks
    <3> QED
      BY <1>0, <2>1, <3>2
  <2>3. CASE ~ParseBrokerResponse(answer).ok
    BY <1>0, <1>8, <2>1, <2>3 DEF ProviderFetched, Finish
  <2> QED
    BY <2>2, <2>3
<1>9. ASSUME NEW answer \in Answers, BranchPut(answer) \/ TagPut(answer)
      PROVE  Elsewhere
  <2>1. pc \in {"branch", "tag"} /\ told' = told
    BY <1>9 DEF BranchPut, TagPut
  <2>2. \/ GoForTags \/ GoForResults \/ Finish(ParseBrokerResponse(answer))
        \/ pc' = pc /\ result' = result
    BY <1>9 DEF BranchPut, TagPut
  <2> QED
    BY <1>0, <2>1, <2>2, PublishingGoesOn DEF Finish
<1>11. ASSUME NEW answer \in Answers, ResultsPosted(answer)
      PROVE  Elsewhere
  BY <1>0, <1>11 DEF ResultsPosted, Finish
<1> QED
  BY <1>1, <1>3, <1>4, <1>5, <1>6, <1>8, <1>9, <1>11 DEF Next

\* Following links keeps the accounts.
LEMMA FollowAccounts ==
  ASSUME NEW done \in Seq(Outcomes), NEW links \in Seq(PactLinkKinds), FollowPacts(done, links),
         listed' \in Seq(PactLinkKinds \cup {"garbage"}),
         told' \subseteq [link : Nat, answer : Answers, valid : BOOLEAN],
         Len(done) + Len(links) = Len(listed'),
         \A k \in 1 .. Len(links) : links[k] = listed'[Len(done) + k],
         \A k \in 1 .. Len(done) :
           /\ done[k].ok <=> \E t \in told' : Answer(k, t)
           /\ Fetchable(listed'[k]) <=> \E t \in told' : t.link = k,
         \A t \in told' : t.link <= Len(done),
         \A t, u \in told' : t.link = u.link => t = u
  PROVE  Accounts'
<1>1. PICK n \in 0 .. Len(links) :
        /\ fetched' \in Seq(Outcomes) /\ Len(fetched') = Len(done) + n
        /\ \A k \in 1 .. Len(done) : fetched'[k] = done[k]
        /\ \A k \in 1 .. n : ~Fetchable(links[k]) /\ ~fetched'[Len(done) + k].ok
        /\ todo' \in Seq(PactLinkKinds) /\ Len(todo') = Len(links) - n
        /\ \A k \in 1 .. Len(todo') : todo'[k] = links[n + k]
        /\ \/ n = Len(links) /\ pc' = "done" /\ result' = Ok("pacts")
           \/ n < Len(links) /\ pc' = "pact" /\ result' = result /\ Fetchable(todo'[1])
  BY FollowsTheLinks
<1>2. Len(links) \in Nat /\ Len(done) \in Nat
  OBVIOUS
<1>3. \A k \in 1 .. Len(todo') : todo'[k] = listed'[Len(fetched') + k]
  <2> TAKE k \in 1 .. Len(todo')
  <2>1. n + k \in 1 .. Len(links) /\ Len(done) + (n + k) = Len(fetched') + k
    <3>1. n \in 0 .. Len(links) /\ Len(fetched') = Len(done) + n /\ Len(todo') = Len(links) - n
      BY <1>1
    <3> QED
      BY <1>2, <3>1
  <2>2. todo'[k] = links[n + k] /\ links[n + k] = listed'[Len(done) + (n + k)]
    BY <1>1, <2>1
  <2> QED
    BY <2>1, <2>2
<1>4. ASSUME NEW k \in 1 .. Len(fetched')
      PROVE  /\ fetched'[k].ok <=> \E t \in told' : Answer(k, t)
             /\ Fetchable(listed'[k]) <=> \E t \in told' : t.link = k
  <2>1. CASE k <= Len(done)
    <3>1. k \in 1 .. Len(done) /\ fetched'[k] = done[k]
      BY <1>1, <1>2, <2>1
    <3> QED
      BY <3>1
  <2>2. CASE k > Len(done)
    <3>1. k - Len(done) \in 1 .. n /\ Len(done) + (k - Len(done)) = k
      BY <1>1, <1>2, <2>2
    <3>2. ~Fetchable(links[k - Len(done)]) /\ ~fetched'[k].ok
      BY <1>1, <3>1
    <3>3. ~Fetchable(listed'[k])
      <4>1. n \in 0 .. Len(links)
        BY <1>1
      <4>2. k - Len(done) \in 1 .. Len(links)
        BY <1>2, <3>1, <4>1
      <4>3. links[k - Len(done)] = listed'[Len(done) + (k - Len(done))]
        BY <4>2
      <4> QED
        BY <3>1, <3>2, <4>3
    <3>4. ~ \E t \in told' : t.link = k
      BY <1>1, <1>2, <2>2
    <3> QED
      BY <3>2, <3>3, <3>4 DEF Answer
  <2> QED
    BY <1>1, <1>2, <2>1, <2>2
<1>5. \A t \in told' : t.link <= Len(fetched')
  <2> TAKE t \in told'
  <2>1. t.link \in Nat /\ t.link <= Len(done)
    OBVIOUS
  <2> QED
    BY <1>1, <1>2, <2>1
<1>6. Len(fetched') + Len(todo') = Len(listed') /\ Len(todo') \in Nat
      /\ (pc' = "done" => Len(todo') = 0)
  <2>1. /\ Len(fetched') = Len(done) + n /\ Len(todo') = Len(links) - n /\ n \in 0 .. Len(links)
        /\ pc' = "done" => n = Len(links)
    BY <1>1
  <2>2. Len(done) + Len(links) = Len(listed')
    OBVIOUS
  <2>3. (Len(done) + n) + (Len(links) - n) = Len(done) + Len(links)
    BY <1>2
  <2>4. Len(links) - n \in Nat /\ (n = Len(links) => Len(links) - n = 0)
    BY <1>2
  <2> QED
    BY <2>1, <2>2, <2>3, <2>4
<1> QED
  BY <1>3, <1>4, <1>5, <1>6 DEF Accounts

LEMMA StepAccounts ==
  ASSUME Control, Accounts, AskedLate, [Next]_vars
  PROVE  Accounts' /\ AskedLate'
<1>1. CASE UNCHANGED vars
  BY <1>1 DEF vars, Accounts, AskedLate
<1>2. CASE SendAgain
  <2>1. /\ pc' = pc /\ todo' = todo /\ fetched' = fetched /\ result' = result
        /\ listed' = listed /\ told' = told
    BY <1>2 DEF SendAgain
  <2> QED
    BY <2>1 DEF Accounts, AskedLate
<1>u. CASE NeverAnswered
  <2>1. pc' = "unanswered" /\ result' = result /\ ~result.ok
    BY <1>u DEF NeverAnswered, Control, PlaceIsRight
  <2> QED
    BY <2>1 DEF Accounts, AskedLate, Ok
<1>3. CASE pc \notin {"pact", "done", "unanswered"} /\ pc' # "pact" /\ told' = told /\ result' # Ok("pacts")
  BY <1>3 DEF Accounts, AskedLate, Control, PlaceIsRight
<1>4. CASE /\ Next /\ pc \in {"entry", "selection"} /\ told' = told
           /\ \E list \in Seq(PactLinkKinds) : listed' = list /\ FollowPacts(<<>>, list)
  <2>1. PICK list \in Seq(PactLinkKinds) : listed' = list /\ FollowPacts(<<>>, list)
    BY <1>4
  <2>2. told' = {}
    BY <1>4 DEF AskedLate, Control, PlaceIsRight
  <2>3. <<>> \in Seq(Outcomes) /\ Len(<<>>) = 0 /\ Len(list) \in Nat
        /\ listed' \in Seq(PactLinkKinds \cup {"garbage"})
        /\ told' \subseteq [link : Nat, answer : Answers, valid : BOOLEAN]
    BY <2>1, <2>2
  <2>4. Accounts'
    <3>1. Len(<<>>) + Len(list) = Len(listed')
      BY <2>1, <2>3
    <3>2. \A k \in 1 .. Len(list) : list[k] = listed'[Len(<<>>) + k]
      BY <2>1, <2>3
    <3>3. 1 .. Len(<<>>) = {}
      BY <2>3
    <3> QED
      BY <2>1, <2>2, <2>3, <3>1, <3>2, <3>3, FollowAccounts
  <2>5. AskedLate'
    BY <2>2 DEF AskedLate
  <2> QED
    BY <2>4, <2>5
<1>5. ASSUME Next, NEW answer \in Answers, PactFetched(answer)
      PROVE  Accounts' /\ AskedLate'
  <2>1. /\ pc = "pact" /\ listed' = listed /\ fetched \in Seq(Outcomes)
        /\ listed \in Seq(PactLinkKinds \cup {"garbage"})
        /\ todo \in Seq(PactLinkKinds) /\ Len(todo) > 0 /\ Fetchable(todo[1])
    BY <1>5 DEF PactFetched, Control, PlaceIsRight
  <2>2. PICK valid \in BOOLEAN :
          /\ told' = told \cup {[link |-> Len(listed) - Len(todo) + 1, answer |-> answer, valid |-> valid]}
          /\ FollowPacts(Append(fetched, Loaded(answer, valid)), Tail(todo))
    BY <1>5 DEF PactFetched
  <2> DEFINE this == Len(fetched) + 1
             new == [link |-> this, answer |-> answer, valid |-> valid]
             done == Append(fetched, Loaded(answer, valid))
             links == Tail(todo)
  <2>3. /\ Len(fetched) + Len(todo) = Len(listed)
        /\ \A k \in 1 .. Len(todo) : todo[k] = listed[Len(fetched) + k]
        /\ \A k \in 1 .. Len(fetched) :
             /\ fetched[k].ok <=> \E t \in told : Answer(k, t)
             /\ Fetchable(listed[k]) <=> \E t \in told : t.link = k
        /\ \A t \in told : t.link <= Len(fetched)
        /\ \A t, u \in told : t.link = u.link => t = u
    BY <2>1 DEF Accounts
  <2>4. Len(fetched) \in Nat /\ Len(todo) \in Nat /\ Len(listed) \in Nat
    BY <2>1
  <2>5. told' = told \cup {new}
    BY <2>2, <2>3, <2>4
  <2>6. /\ done \in Seq(Outcomes) /\ Len(done) = this /\ done[this] = Loaded(answer, valid)
        /\ \A k \in 1 .. Len(fetched) : done[k] = fetched[k]
    <3>1. Loaded(answer, valid) \in Outcomes
      BY ParsedAnswers
    <3> QED
      BY <2>1, <2>4, <3>1
  <2>7. /\ links \in Seq(PactLinkKinds) /\ Len(links) = Len(todo) - 1
        /\ \A k \in 1 .. Len(links) : links[k] = todo[k + 1]
    BY <2>1, <2>4
  <2>8. new.link = this /\ new.answer = answer /\ new.valid = valid
        /\ new \in [link : Nat, answer : Answers, valid : BOOLEAN]
    BY <2>4
  <2>9. FollowPacts(done, links)
    BY <2>2
  <2> HIDE DEF new, done, links
  <2>10. Len(done) + Len(links) = Len(listed')
    <3>1. Len(fetched) + Len(todo) = Len(listed')
      BY <2>1, <2>3
    <3>2. Len(done) = Len(fetched) + 1 /\ Len(links) = Len(todo) - 1
      BY <2>6, <2>7
    <3> QED
      BY <2>4, <3>1, <3>2
  <2>11. \A k \in 1 .. Len(links) : links[k] = listed'[Len(done) + k]
    <3> TAKE k \in 1 .. Len(links)
    <3>1. k + 1 \in 1 .. Len(todo) /\ Len(fetched) + (k + 1) = Len(done) + k
      BY <2>4, <2>6, <2>7
    <3> QED
      BY <2>1, <2>3, <2>7, <3>1
  <2>12. ASSUME NEW k \in 1 .. Len(done)
         PROVE  /\ done[k].ok <=> \E t \in told' : Answer(k, t)
                /\ Fetchable(listed'[k]) <=> \E t \in told' : t.link = k
    <3>1. CASE k = this
      <4>1. \A t \in told : t.link # k
        BY <2>3, <2>4, <3>1
      <4>2. done[k].ok <=> answer = "json" /\ valid
        BY <2>6, <3>1, ParsedAnswers
      <4>3. Fetchable(listed'[k])
        <5>1. 1 \in 1 .. Len(todo) /\ k = Len(fetched) + 1
          BY <2>1, <2>4, <3>1
        <5> QED
          BY <2>1, <2>3, <5>1
      <4> QED
        BY <2>5, <2>8, <3>1, <4>1, <4>2, <4>3 DEF Answer
    <3>2. CASE k \in 1 .. Len(fetched)
      <4>1. new.link # k
        BY <2>4, <2>8, <3>2
      <4>2. done[k] = fetched[k] /\ listed' = listed
        BY <2>1, <2>6, <3>2
      <4>3. /\ fetched[k].ok <=> \E t \in told : Answer(k, t)
            /\ Fetchable(listed[k]) <=> \E t \in told : t.link = k
        BY <2>3, <3>2
      <4>4. /\ (\E t \in told' : Answer(k, t)) <=> \E t \in told : Answer(k, t)
            /\ (\E t \in told' : t.link = k) <=> \E t \in told : t.link = k
        BY <2>5, <4>1 DEF Answer
      <4> QED
        BY <4>2, <4>3, <4>4
    <3> QED
      BY <2>4, <2>6, <3>1, <3>2
  <2>13. \A t \in told' : t.link <= Len(done)
    <3>1. \A t \in told : t.link \in Nat /\ t.link <= Len(fetched)
      BY <2>3 DEF Control
    <3> QED
      BY <2>4, <2>5, <2>6, <2>8, <3>1
  <2>14. \A t, u \in told' : t.link = u.link => t = u
    <3>1. \A t \in told : t.link # this
      <4>1. \A t \in told : t.link \in Nat /\ t.link <= Len(fetched)
        BY <2>3 DEF Control
      <4> QED
        BY <2>4, <4>1
    <3> QED
      BY <2>3, <2>5, <2>8, <3>1
  <2>15. told' \subseteq [link : Nat, answer : Answers, valid : BOOLEAN]
    BY <2>5, <2>8 DEF Control
  <2>16. listed' \in Seq(PactLinkKinds \cup {"garbage"})
    BY <2>1
  <2>17. Accounts'
    BY <2>6, <2>7, <2>9, <2>10, <2>11, <2>12, <2>13, <2>14, <2>15, <2>16, FollowAccounts
  <2>18. pc' = "pact" \/ result' = Ok("pacts")
    BY <2>6, <2>7, <2>9, FollowsTheLinks
  <2> QED
    BY <2>17, <2>18 DEF AskedLate, Ok
<1> QED
  BY <1>1, <1>2, <1>u, <1>3, <1>4, <1>5, StepKinds

-----------------------------------------------------------------------------
(* What the broker records.                                                *)

LEMMA StepMoves ==
  ASSUME Control, Next, ~SendAgain, ~NeverAnswered
  PROVE  /\ job' = job /\ Moves
         /\ \/ pc = "start" /\ attempt' = attempt /\ again' = again /\ recorded' = recorded
               /\ (pc' = "done" => ~result'.ok)
            \/ /\ pc # "start" /\ attempt' = 1 /\ again' = again
               /\ \E answer \in Answers :
                    /\ Changes(answer)
                    /\ pc \in PublishRequests /\ (pc' # "done" \/ result'.ok) => answer = "json"
                    /\ pc' = "done" /\ pc \in PublishRequests /\ result'.ok => pc = "results"
<1> DEFINE Sent(answer) ==
             /\ job' = job /\ pc # "start" /\ attempt' = 1 /\ again' = again /\ Changes(answer)
             /\ pc \in PublishRequests /\ (pc' # "done" \/ result'.ok) => answer = "json"
             /\ pc' = "done" /\ pc \in PublishRequests /\ result'.ok => pc = "results"
<1> USE DEF Moves, FetchRequests, PublishRequests
<1>1. CASE Start
  <2>1. pc = "start" /\ job' = job /\ attempt' = attempt /\ again' = again /\ recorded' = recorded
    BY <1>1 DEF Start
  <2>2. CASE job.op = "publish"
    <3>1. GoForBranch
      BY <1>1, <2>2 DEF Start
    <3> QED
      BY <2>1, <3>1, PublishingGoesOn
  <2>3. CASE job.op # "publish"
    BY <1>1, <2>1, <2>3 DEF Start, Request
  <2> QED
    BY <2>2, <2>3
<1>3. ASSUME NEW answer \in Answers, IndexFetched(answer)
      PROVE  Sent(answer) /\ Moves
  <2>1. pc = "index" /\ Answered(answer)
    BY <1>3 DEF IndexFetched
  <2>2. CASE ParseBrokerResponse(answer).ok
    <3>1. LET link == FindLink(pathInfo', EntryLink(job.op)) IN
            Then(IF link.ok THEN FetchUrl(link.value) ELSE link, "entry")
      BY <1>3, <2>2 DEF IndexFetched
    <3>2. pc' \in {"entry", "done"}
      BY <3>1, DocumentGoesOn, StepsOfLinks
    <3> QED
      BY <2>1, <3>2 DEF Answered
  <2>3. CASE ~ParseBrokerResponse(answer).ok
    BY <1>3, <2>1, <2>3 DEF IndexFetched, Finish, Answered
  <2> QED
    BY <2>2, <2>3
<1>4. ASSUME NEW answer \in Answers,
             LatestFetched(answer) \/ SelectionPosted(answer) \/ PactFetched(answer)
      PROVE  Sent(answer) /\ Moves
  <2>1. pc \in {"entry", "selection", "pact"} /\ Answered(answer)
    BY <1>4 DEF LatestFetched, SelectionPosted, PactFetched
  <2>2. pc' \in {"pact", "done"}
    <3>1. \A done, links : FollowPacts(done, links) => pc' \in {"pact", "done"}
      BY DEF FollowPacts
    <3>2. \A outcome : Finish(outcome) => pc' = "done"
      BY DEF Finish
    <3> QED
      BY <1>4, <3>1, <3>2 DEF LatestFetched, SelectionPosted, PactFetched
  <2> QED
    BY <2>1, <2>2 DEF Answered
<1>5. ASSUME NEW answer \in Answers, EntryFetched(answer)
      PROVE  Sent(answer) /\ Moves
  <2>1. pc = "entry" /\ Answered(answer)
    BY <1>5 DEF EntryFetched
  <2>2. CASE ParseBrokerResponse(answer).ok
    <3>1. LET link == FindLink(pathInfo', "self") IN
            Then(IF link.ok THEN SendTo(link.value) ELSE link, "selection")
      BY <1>5, <2>2 DEF EntryFetched
    <3>2. pc' \in {"selection", "done"}
      BY <3>1, DocumentGoesOn, StepsOfLinks
    <3> QED
      BY <2>1, <3>2 DEF Answered
  <2>3. CASE ~ParseBrokerResponse(answer).ok
    BY <1>5, <2>1, <2>3 DEF EntryFetched, Finish, Answered
  <2> QED
    BY <2>2, <2>3
<1>8. ASSUME NEW answer \in Answers, NEW at, NEW name, NEW next,
             \/ at = "branchProvider" /\ next = "branch"
             \/ at = "tagProvider" /\ next = "tag",
             ProviderFetched(answer, at, name, next)
      PROVE  Sent(answer) /\ Moves
  <2>1. pc = at /\ Answered(answer)
    BY <1>8 DEF ProviderFetched
  <2>2. CASE ParseBrokerResponse(answer).ok
    <3>1. LET found == FindLink(pathInfo', name) IN
            Then(IF found.ok THEN SendTo(found.value) ELSE found, next)
      BY <1>8, <2>2 DEF ProviderFetched
    <3>2. todo' = todo /\ (pc' = next \/ (pc' = "done" /\ ~result'.ok))
      BY <3>1, DocumentGoesOn, StepsOfLinks
    <3>3. answer = "json"
      BY <2>2, ParsedAnswers
    <3> QED
      BY <1>8, <2>1, <3>2, <3>3 DEF Answered
  <2>3. CASE ~ParseBrokerResponse(answer).ok
    BY <1>8, <2>1, <2>3, BadAnswerEnds DEF ProviderFetched, Answered
  <2> QED
    BY <2>2, <2>3
<1>9. ASSUME NEW answer \in Answers, BranchPut(answer)
      PROVE  Sent(answer) /\ Moves
  <2>1. pc = "branch" /\ Answered(answer)
    BY <1>9 DEF BranchPut
  <2>2. CASE ParseBrokerResponse(answer).ok
    <3>1. \/ pc' = "tagProvider"
          \/ pc' = "results" /\ ~(job.tags > 0)
          \/ pc' = "done" /\ ~result'.ok
      BY <1>9, <2>2, PublishingGoesOn DEF BranchPut
    <3>2. answer = "json"
      BY <2>2, ParsedAnswers
    <3> QED
      BY <2>1, <3>1, <3>2 DEF Answered
  <2>3. CASE ~ParseBrokerResponse(answer).ok
    BY <1>9, <2>1, <2>3, BadAnswerEnds DEF BranchPut, Answered
  <2> QED
    BY <2>2, <2>3
<1>10. ASSUME NEW answer \in Answers, TagPut(answer)
      PROVE  Sent(answer) /\ Moves
  <2>1. pc = "tag" /\ Answered(answer)
    BY <1>10 DEF TagPut
  <2>2. CASE ParseBrokerResponse(answer).ok
    <3>1. \/ pc' = "tag" /\ Len(todo) > 1 /\ todo' = Tail(todo)
          \/ pc' = "results" /\ ~(Len(todo) > 1)
          \/ pc' = "done" /\ ~result'.ok
      BY <1>10, <2>1, <2>2, PublishingGoesOn DEF TagPut
    <3>2. answer = "json"
      BY <2>2, ParsedAnswers
    <3>3. pc' = "tag" => result' = result
      BY <1>10, <2>1, <2>2, PublishingGoesOn DEF TagPut
    <3> QED
      BY <2>1, <3>1, <3>2 DEF Answered
  <2>3. CASE ~ParseBrokerResponse(answer).ok
    BY <1>10, <2>1, <2>3, BadAnswerEnds DEF TagPut, Answered
  <2> QED
    BY <2>2, <2>3
<1>11. ASSUME NEW answer \in Answers, ResultsPosted(answer)
      PROVE  Sent(answer) /\ Moves
  BY <1>11, ParsedAnswers DEF ResultsPosted, Finish, Answered
<1> QED
  <2>1. Start \/ \E answer \in Answers : Sent(answer) /\ Moves
    BY <1>3, <1>4, <1>5, <1>8, <1>9, <1>10, <1>11 DEF Next
  <2> QED
    BY <1>1, <2>1

LEMMA ChangesCount ==
  ASSUME Control, Counts, NEW answer \in Answers, Changes(answer), job' = job
  PROVE  /\ recorded' \in [Items -> 0..Retries] /\ Items' = Items
         /\ \A item \in Items : item # Item => recorded'[item] = recorded[item]
         /\ Item \in Items => /\ recorded'[Item] \in {recorded[Item], recorded[Item] + 1}
                              /\ answer = "json" => recorded'[Item] = recorded[Item] + 1
<1>1. Items' = Items
  BY DEF Items, TagsOf
<1>2. CASE Item \notin Items
  BY <1>1, <1>2 DEF Changes, Counts
<1>3. CASE Item \in Items
  <2> DEFINE once == [recorded EXCEPT ![Item] = IF @ > Retries THEN @ ELSE @ + 1]
  <2>1. /\ recorded \in [Items -> 0..Retries] /\ recorded[Item] < attempt /\ attempt \in 1..Retries
        /\ Retries \in Nat
    BY <1>3, BrokerAssumption DEF Counts, Control
  <2>2. once = [recorded EXCEPT ![Item] = recorded[Item] + 1]
    <3>1. ~(recorded[Item] > Retries)
      BY <1>3, <2>1
    <3> QED
      BY <3>1
  <2>3. recorded' \in {once, recorded} /\ (answer = "json" => recorded' = once)
    BY <1>3 DEF Changes, Effects, Answers
  <2> HIDE DEF once
  <2>4. recorded[Item] + 1 \in 0..Retries
    BY <1>3, <2>1
  <2> QED
    BY <1>1, <1>3, <2>1, <2>2, <2>3, <2>4
<1> QED
  BY <1>2, <1>3

\* The kinds of items.
LEMMA ItemsDiffer ==
  /\ <<"none", 0>> \notin Items
  /\ \A k : <<"tag", k>> # <<"branch", 0>> /\ <<"tag", k>> # <<"results", 0>>
  /\ <<"branch", 0>> # <<"results", 0>>
  /\ \A j, k : <<"tag", j>> = <<"tag", k>> <=> j = k
  /\ \A k \in 1 .. job.tags : <<"tag", k>> \in Items
  /\ <<"branch", 0>> \in Items /\ <<"results", 0>> \in Items
  /\ \A item \in Items : \/ item = <<"branch", 0>> \/ item = <<"results", 0>>
                         \/ \E k \in 1 .. job.tags : item = <<"tag", k>>
BY DEF Items, TagsOf

\* The tag that is being put.
LEMMA TagIsNext ==
  ASSUME Control, pc = "tag"
  PROVE  /\ Len(todo) \in 1 .. job.tags /\ todo[1] = job.tags - Len(todo) + 1
         /\ todo[1] \in 1 .. job.tags /\ Item = <<"tag", todo[1]>> /\ Item \in Items
         /\ Len(todo) > 1 => Tail(todo)[1] = todo[1] + 1
         /\ ~(Len(todo) > 1) => todo[1] = job.tags
<1>1. /\ todo \in Seq(1 .. job.tags) /\ Len(todo) > 0 /\ Len(todo) \in Nat /\ job.tags \in Nat
      /\ \A k \in 1 .. Len(todo) : todo[k] = job.tags - Len(todo) + k
  BY JobsAssumption DEF Control, PlaceIsRight
<1>2. todo[1] \in 1 .. job.tags /\ todo[1] = job.tags - Len(todo) + 1 /\ Head(todo) = todo[1]
  BY <1>1
<1>3. Len(todo) \in 1 .. job.tags
  BY <1>1, <1>2
<1>4. Len(todo) > 1 => Tail(todo)[1] = todo[1] + 1
  BY <1>1, RestInPlace
<1>5. Item = <<"tag", todo[1]>> /\ Item \in Items
  BY <1>2, ItemsDiffer DEF Item
<1> QED
  BY <1>1, <1>2, <1>3, <1>4, <1>5

\* So is the tag that is put next.
LEMMA StepTag ==
  ASSUME Control', pc' = "tag", job' = job
  PROVE  Item' = <<"tag", todo'[1]>> /\ todo'[1] \in 1 .. job.tags
<1>1. /\ todo' \in Seq(1 .. job.tags) /\ Len(todo') > 0
  BY DEF Control, PlaceIsRight
<1>2. todo'[1] \in 1 .. job.tags /\ Head(todo') = todo'[1]
  <2>1. \A X : \A list \in Seq(X) : Len(list) > 0 => list[1] \in X /\ Head(list) = list[1]
    OBVIOUS
  <2> QED
    BY <1>1, <2>1
<1>3. Item' = <<"tag", Head(todo')>>
  BY DEF Item
<1> QED
  BY <1>2, <1>3

\* A request is sent for what is next, and never for what has been sent.
LEMMA LaterIsLess ==
  ASSUME Control, Next, ~SendAgain, ~NeverAnswered
  PROVE  /\ \A item \in Items : Later(item)' => Later(item) /\ item # Item
         /\ \A item \in Items : item = Item' => Later(item) /\ item # Item
<1> USE ItemsDiffer DEF Later, Item, FetchRequests
<1>1. job' = job /\ Moves /\ Control' /\ TagsOf(job)' = TagsOf(job)
      /\ (pc \in FetchRequests => job.op # "publish")
      /\ (pc = "start" => todo = [k \in 1 .. job.tags |-> k]) /\ job.tags \in Nat
  BY StepMoves, StepControl, JobsAssumption DEF TagsOf, Control, PlaceIsRight
<1>2. CASE pc' = "done"
  <2>1. Item' = <<"none", 0>>
    BY <1>2
  <2>2. \A item \in Items : Later(item)' => job.op # "publish"
    BY <1>1, <1>2
  <2>3. job.op # "publish" => Item \notin Items
    BY <1>1 DEF Control, PlaceIsRight, PublishRequests
  <2> QED
    BY <2>1, <2>2, <2>3
<1>p. pc \in PublishRequests => job.op = "publish"
  BY DEF Control, PlaceIsRight
<1> USE DEF PublishRequests
<1>3. CASE pc \in {"start"} \cup FetchRequests /\ pc' \in FetchRequests
  <2>1. job.op # "publish" /\ Item = <<"none", 0>> /\ Item' = <<"none", 0>>
    BY <1>1, <1>3 DEF Control, PlaceIsRight
  <2> QED
    BY <2>1
<1>4. CASE pc = "start" \/ (pc = "branchProvider" /\ pc' = "branch")
  <2>1. \A item \in Items : Later(item)
    BY <1>4
  <2>2. Item = <<"none", 0>>
    BY <1>4
  <2> QED
    BY <2>1, <2>2
<1>5. CASE pc = "branch" /\ pc' = "tagProvider"
  <2>1. \A item \in Items : Later(item)' => item # <<"branch", 0>>
    BY <1>1, <1>5, <1>p DEF TagsOf
  <2>2. Item' = <<"none", 0>> /\ Item = <<"branch", 0>>
    BY <1>5
  <2> QED
    BY <1>5, <2>1, <2>2
<1>6. CASE pc = "branch" /\ pc' = "results"
  <2>1. \A item \in Items : ~Later(item)'
    BY <1>1, <1>6, <1>p
  <2>2. Item' = <<"results", 0>> /\ Item = <<"branch", 0>>
    BY <1>6
  <2> QED
    BY <1>6, <2>1, <2>2
<1>7. CASE pc = "tagProvider" /\ pc' = "tag" /\ todo' = todo
  <2>1. \A item \in Items : Later(item)' => item = <<"results", 0>> \/ item \in TagsOf(job)
    BY <1>1, <1>7, <1>p DEF TagsOf
  <2>2. Item = <<"none", 0>>
    BY <1>7
  <2>3. Item' = <<"tag", todo'[1]>> /\ todo'[1] \in 1 .. job.tags
    BY <1>1, <1>7, TagIsNext, StepTag
  <2>4. Item' \in TagsOf(job)
    BY <2>3 DEF TagsOf
  <2> QED
    BY <1>7, <2>1, <2>2, <2>4
<1>8. CASE pc = "tag" /\ pc' = "tag" /\ Len(todo) > 1 /\ todo' = Tail(todo)
  <2>1. /\ todo'[1] = todo[1] + 1 /\ todo[1] \in 1 .. job.tags /\ Item = <<"tag", todo[1]>>
        /\ Item' = <<"tag", todo'[1]>> /\ todo'[1] \in 1 .. job.tags
    BY <1>1, <1>8, TagIsNext, StepTag
  <2>2. \A item \in Items : Later(item)' =>
          \/ item = <<"results", 0>>
          \/ \E k \in 1 .. job.tags : item = <<"tag", k>> /\ k > todo[1] + 1
    BY <1>1, <1>8, <1>p, <2>1
  <2>3. \A k \in 1 .. job.tags : k > todo[1] + 1 => k > todo[1] /\ k # todo[1]
    BY <1>1, <2>1
  <2>4. todo[1] + 1 > todo[1] /\ todo[1] + 1 # todo[1]
    BY <1>1, <2>1
  <2>5. \A item \in Items : Later(item)' => Later(item) /\ item # Item
    BY <1>8, <2>1, <2>2, <2>3
  <2>6. \A item \in Items : item = Item' => Later(item) /\ item # Item
    <3>1. Later(<<"tag", todo'[1]>>)
      BY <1>8, <2>1, <2>4
    <3>2. <<"tag", todo'[1]>> # <<"tag", todo[1]>>
      BY <2>1, <2>4
    <3> HIDE DEF Later, Item
    <3> QED
      BY <2>1, <3>1, <3>2
  <2> QED
    BY <2>5, <2>6
<1>9. CASE pc = "tag" /\ pc' = "results"
  <2>1. \A item \in Items : ~Later(item)'
    BY <1>1, <1>9, <1>p
  <2>2. Item' = <<"results", 0>> /\ Item = <<"tag", todo[1]>>
    BY <1>9, TagIsNext
  <2> QED
    BY <1>9, <2>1, <2>2
<1> QED
  BY <1>1, <1>2, <1>3, <1>4, <1>5, <1>6, <1>7, <1>8, <1>9 DEF Moves

LEMMA StepCounts ==
  ASSUME Control, Counts, [Next]_vars
  PROVE  Counts'
<1>1. CASE UNCHANGED vars
  <2>1. Items' = Items /\ Item' = Item
    BY <1>1 DEF vars, Items, TagsOf, Item
  <2>2. \A item : Later(item)' <=> Later(item)
    BY <1>1 DEF vars, Later, TagsOf
  <2>3. recorded' = recorded /\ again' = again /\ attempt' = attempt /\ pc' = pc
    BY <1>1 DEF vars
  <2> QED
    BY <2>1, <2>2, <2>3 DEF Counts
<1>2. CASE SendAgain
  <2>1. PICK answer \in Answers : /\ ~Final(answer) /\ Changes(answer)
                                  /\ again' = again \cup {Item}
    BY <1>2 DEF SendAgain, Final
  <2>2. /\ job' = job /\ pc' = pc /\ todo' = todo /\ attempt' = attempt + 1 /\ attempt \in 1..Retries
    BY <1>2 DEF SendAgain, Control
  <2>3. Items' = Items /\ Item' = Item /\ \A item : Later(item)' <=> Later(item)
    BY <2>2 DEF Items, TagsOf, Item, Later
  <2>4. \A item \in Items : Later(item) => item # Item
    BY <2>2, ItemsDiffer, TagIsNext DEF Control, PlaceIsRight, PublishRequests, Later, Item
  <2>5. /\ recorded' \in [Items -> 0..Retries]
        /\ \A item \in Items : item # Item => recorded'[item] = recorded[item]
        /\ Item \in Items => recorded'[Item] \in {recorded[Item], recorded[Item] + 1}
    BY <2>1, <2>2, ChangesCount
  <2>6. Item \in Items => recorded'[Item] < attempt + 1
    BY <2>2, <2>5 DEF Counts
  <2>7. \A item \in Items : recorded'[item] > 1 => item \in again'
    BY <2>1, <2>5 DEF Counts
  <2>8. \A item \in Items : Later(item)' => recorded'[item] = 0
    BY <2>3, <2>4, <2>5 DEF Counts
  <2> QED
    BY <2>1, <2>2, <2>3, <2>5, <2>6, <2>7, <2>8 DEF Counts
<1>u. CASE NeverAnswered
  <2>1. /\ Changes("noResponse") /\ "noResponse" \in Answers
        /\ job' = job /\ pc' = "unanswered" /\ again' = again /\ pc \notin {"start", "done", "unanswered"}
    BY <1>u DEF NeverAnswered, Answers
  <2>2. /\ recorded' \in [Items -> 0..Retries] /\ Items' = Items
        /\ \A item \in Items : item # Item => recorded'[item] = recorded[item]
        /\ Item \in Items => recorded'[Item] \in {recorded[Item], recorded[Item] + 1}
    BY <2>1, ChangesCount
  <2>3. Item' \notin Items'
    BY <2>1, <2>2, ItemsDiffer DEF Item
  <2>4. \A item \in Items : Later(item)' => job.op # "publish"
    BY <2>1 DEF Later
  <2>5. ASSUME NEW item \in Items, Later(item)'
        PROVE  recorded'[item] = 0
    <3>1. Later(item) /\ Item \notin Items
      BY <2>4, <2>5, ItemsDiffer DEF Later, Item, Control, PlaceIsRight, PublishRequests
    <3>2. recorded[item] = 0 /\ item # Item
      BY <3>1 DEF Counts
    <3> QED
      BY <2>2, <3>2
  <2>6. ASSUME NEW item \in Items, recorded'[item] > 1
        PROVE  item \in again'
    <3>1. CASE item # Item
      BY <2>1, <2>2, <2>6, <3>1 DEF Counts
    <3>2. CASE item = Item
      <4>1. recorded[Item] \in Nat /\ recorded[Item] < attempt /\ recorded[Item] > 0 /\ attempt \in Nat
        BY <2>2, <2>6, <3>2 DEF Counts, Control
      <4>2. attempt > 1
        BY <4>1
      <4> QED
        BY <2>1, <3>2, <4>2 DEF Counts
    <3> QED
      BY <3>1, <3>2
  <2> QED
    BY <2>1, <2>2, <2>3, <2>5, <2>6 DEF Counts
<1>3. CASE Next /\ ~SendAgain /\ ~NeverAnswered
  <2>1. /\ \A item \in Items : Later(item)' => Later(item) /\ item # Item
        /\ \A item \in Items : item = Item' => Later(item) /\ item # Item
    BY <1>3, LaterIsLess
  <2>2. /\ recorded' \in [Items -> 0..Retries] /\ Items' = Items
        /\ \A item \in Items : item # Item => recorded'[item] = recorded[item]
        /\ Item \in Items => recorded'[Item] \in {recorded[Item], recorded[Item] + 1}
        /\ again' = again
    <3>1. job' = job /\ Items' = Items
      BY <1>3, StepMoves DEF Items, TagsOf
    <3>2. CASE recorded' = recorded /\ again' = again
      BY <3>1, <3>2 DEF Counts
    <3>3. CASE again' = again /\ \E answer \in Answers : Changes(answer)
      BY <3>1, <3>3, ChangesCount
    <3> QED
      BY <1>3, <3>2, <3>3, StepMoves
  <2>3. attempt' = 1
    <3>1. pc = "start" => attempt = 1
      BY DEF Control, PlaceIsRight
    <3> QED
      BY <1>3, <3>1, StepMoves
  <2>4. \A item \in Items : Later(item)' => recorded'[item] = 0
    BY <2>1, <2>2 DEF Counts
  <2>5. Item' \in Items => recorded'[Item'] = 0
    BY <2>1, <2>2 DEF Counts
  <2>6. ASSUME NEW item \in Items, recorded'[item] > 1
        PROVE  item \in again'
    <3>1. CASE item # Item
      BY <2>2, <2>6, <3>1 DEF Counts
    <3>2. CASE item = Item
      <4>1. recorded[Item] \in Nat /\ recorded[Item] < attempt /\ recorded[Item] > 0 /\ attempt \in Nat
        BY <2>2, <2>6, <3>2 DEF Counts, Control
      <4>2. attempt > 1
        BY <4>1
      <4>3. pc # "unanswered"
        BY <2>6, <3>2, ItemsDiffer DEF Item
      <4> QED
        BY <2>2, <3>2, <4>2, <4>3 DEF Counts
    <3> QED
      BY <3>1, <3>2
  <2> QED
    BY <2>2, <2>3, <2>4, <2>5, <2>6 DEF Counts
<1> QED
  BY <1>1, <1>2, <1>u, <1>3

LEMMA StepInOrder ==
  ASSUME Control, Counts, InOrder, [Next]_vars
  PROVE  InOrder'
<1>t. \A item \in Items : recorded[item] \in Nat
  BY BrokerAssumption DEF Counts
<1>1. CASE UNCHANGED vars
  BY <1>1 DEF vars, InOrder, Wants, TagsOf
<1>2. CASE SendAgain
  <2>1. PICK answer \in Answers : Changes(answer)
    BY <1>2 DEF SendAgain
  <2>2. job' = job /\ pc' = pc /\ todo' = todo /\ result' = result /\ pc # "done"
    BY <1>2 DEF SendAgain
  <2>3. \A item \in Items : recorded[item] > 0 => recorded'[item] > 0
    BY <1>t, <2>1, <2>2, ChangesCount
  <2> QED
    BY <2>2, <2>3, ItemsDiffer DEF InOrder
<1>u. CASE NeverAnswered
  BY <1>u DEF NeverAnswered, InOrder
<1>3. CASE Next /\ ~SendAgain /\ ~NeverAnswered
  <2>1. job' = job /\ Moves /\ Wants' = Wants /\ Control'
    BY <1>3, StepMoves, StepControl DEF Wants, TagsOf
  <2>2. \A item \in Items : recorded[item] > 0 => recorded'[item] > 0
    <3>1. \A answer \in Answers : Changes(answer) =>
            \A item \in Items : recorded'[item] \in {recorded[item], recorded[item] + 1}
      BY <2>1, ChangesCount
    <3>2. recorded' = recorded \/ \E answer \in Answers : Changes(answer)
      BY <1>3, StepMoves
    <3> QED
      BY <1>t, <3>1, <3>2
  <2>3. pc \in PublishRequests /\ (pc' # "done" \/ result'.ok) /\ Item \in Items => recorded'[Item] > 0
    <3>1. ASSUME pc \in PublishRequests, pc' # "done" \/ result'.ok, Item \in Items
          PROVE  recorded'[Item] > 0
      <4>1. PICK answer \in Answers : Changes(answer) /\ answer = "json"
        BY <1>3, <3>1, StepMoves DEF PublishRequests
      <4>2. recorded'[Item] = recorded[Item] + 1
        BY <2>1, <3>1, <4>1, ChangesCount
      <4> QED
        BY <1>t, <3>1, <4>2
    <3> QED
      BY <3>1
  <2>4. /\ pc \in PublishRequests => job.op = "publish"
        /\ pc' = "done" /\ result'.ok => pc \notin PublishRequests \/ pc = "results"
        /\ pc' = "done" /\ result'.ok => pc # "start"
    BY <1>3, StepMoves DEF Control, PlaceIsRight
  <2>5. pc' \in {"tagProvider", "tag", "results"} /\ job.branch => recorded'[<<"branch", 0>>] > 0
    <3>1. CASE pc = "branch"
      BY <2>3, <3>1, ItemsDiffer DEF Item, PublishRequests
    <3>2. CASE pc # "branch"
      BY <2>1, <2>2, <3>2, ItemsDiffer DEF Moves, InOrder, FetchRequests
    <3> QED
      BY <3>1, <3>2
  <2>6. pc' = "tag" => \A k \in 1 .. job.tags : k < todo'[1] => recorded'[<<"tag", k>>] > 0
    <3>1. CASE pc = "tagProvider" /\ pc' = "tag" /\ todo' = todo
      <4>1. todo[1] = 1
        <5>1. todo = [k \in 1 .. job.tags |-> k] /\ job.tags > 0 /\ job.tags \in Nat
          BY <3>1, JobsAssumption DEF Control, PlaceIsRight
        <5> QED
          BY <5>1
      <4>2. \A k \in 1 .. job.tags : ~(k < 1)
        BY JobsAssumption DEF Control
      <4> QED
        BY <3>1, <4>1, <4>2
    <3>2. CASE pc = "tag" /\ pc' = "tag" /\ Len(todo) > 1 /\ todo' = Tail(todo)
      <4>1. todo'[1] = todo[1] + 1 /\ todo[1] \in 1 .. job.tags /\ Item = <<"tag", todo[1]>> /\ Item \in Items
        BY <3>2, TagIsNext
      <4>2. recorded'[<<"tag", todo[1]>>] > 0
        BY <2>3, <3>2, <4>1 DEF PublishRequests
      <4>3. \A k \in 1 .. job.tags : k < todo'[1] => k < todo[1] \/ k = todo[1]
        BY <4>1, JobsAssumption DEF Control
      <4>4. \A k \in 1 .. job.tags : k < todo[1] => recorded'[<<"tag", k>>] > 0
        BY <2>2, <3>2, ItemsDiffer DEF InOrder
      <4> QED
        BY <4>2, <4>3, <4>4
    <3> QED
      BY <2>1, <3>1, <3>2 DEF Moves, FetchRequests
  <2>7. pc' = "results" => \A k \in 1 .. job.tags : recorded'[<<"tag", k>>] > 0
    <3>1. CASE ~(job.tags > 0)
      <4>1. 1 .. job.tags = {}
        BY <3>1, JobsAssumption DEF Control
      <4> QED
        BY <4>1
    <3>2. CASE pc = "tag" /\ pc' = "results" /\ ~(Len(todo) > 1)
      <4>1. todo[1] = job.tags /\ Item = <<"tag", todo[1]>> /\ Item \in Items
        BY <3>2, TagIsNext
      <4>2. recorded'[<<"tag", todo[1]>>] > 0
        BY <2>3, <3>2, <4>1 DEF PublishRequests
      <4>3. \A k \in 1 .. job.tags : k < todo[1] \/ k = todo[1]
        BY <4>1, JobsAssumption DEF Control
      <4>4. \A k \in 1 .. job.tags : k < todo[1] => recorded'[<<"tag", k>>] > 0
        BY <2>2, <3>2, ItemsDiffer DEF InOrder
      <4> QED
        BY <4>2, <4>3, <4>4
    <3> QED
      BY <2>1, <3>1, <3>2 DEF Moves, FetchRequests
  <2>8. ASSUME pc' = "done", job.op = "publish", result'.ok, NEW item \in Wants \cup {<<"results", 0>>}
        PROVE  recorded'[item] > 0
    <3>1. pc \notin {"done", "unanswered"}
      BY <1>3, StepKinds DEF PactFetched
    <3>2. pc = "results"
      BY <2>4, <2>8, <3>1 DEF Control, PlaceIsRight
    <3>3. item \in Items
      BY ItemsDiffer DEF Wants, TagsOf
    <3>4. CASE item = <<"results", 0>>
      BY <2>3, <2>8, <3>2, <3>3, <3>4 DEF Item, PublishRequests
    <3>5. CASE item \in Wants
      <4>1. recorded[item] > 0
        BY <3>2, <3>5 DEF InOrder, Wants, TagsOf
      <4> QED
        BY <2>2, <3>3, <4>1
    <3> QED
      BY <3>4, <3>5
  <2> QED
    BY <2>1, <2>5, <2>6, <2>7, <2>8 DEF InOrder
<1> QED
  BY <1>1, <1>2, <1>u, <1>3

-----------------------------------------------------------------------------
(* The theorems.                                                           *)

LEMMA InitBroker == Init => BrokerInv
<1> SUFFICES ASSUME Init PROVE BrokerInv
  OBVIOUS
<1>1. /\ pc = "start" /\ attempt = 1 /\ result = Err("none") /\ told = {}
      /\ recorded = [item \in Items |-> 0]
  BY DEF Init
<1>2. Err("none") # Ok("pacts") /\ ~Err("none").ok
  BY DEF Err, Ok
<1>3. Accounts /\ AskedLate /\ InOrder
  BY <1>1, <1>2 DEF Accounts, AskedLate, InOrder
<1>4. Item \notin Items
  BY <1>1, ItemsDiffer DEF Item
<1>5. Counts
  BY <1>1, <1>4, BrokerAssumption DEF Counts
<1> QED
  BY <1>3, <1>5, InitControl DEF BrokerInv

LEMMA StepBroker == BrokerInv /\ [Next]_vars => BrokerInv'
<1> SUFFICES ASSUME BrokerInv, [Next]_vars PROVE BrokerInv'
  OBVIOUS
<1>1. Control'
  <2>1. CASE UNCHANGED vars
    BY <2>1 DEF vars, BrokerInv, Control, PlaceIsRight
  <2> QED
    BY <2>1, StepControl DEF BrokerInv
<1> QED
  BY <1>1, StepAccounts, StepCounts, StepInOrder DEF BrokerInv

\* The books of the client and of the broker agree at every request.
THEOREM BrokerBooksAgree == Spec => []BrokerInv
BY InitBroker, StepBroker, PTL DEF Spec

(* Every pact link the broker gave has its entry, made from the answer to  *)
(* its own request; a call that fails as a whole had asked for no pact.    *)
THEOREM PactsAccountedFor == Spec => []PactsAreAccountedFor
<1>1. ASSUME BrokerInv PROVE TypeOK
  BY <1>1 DEF BrokerInv, Control, Counts, TypeOK, FetchRequests, PublishRequests
<1>2. ASSUME BrokerInv PROVE EveryPactIsAccountedFor
  <2> SUFFICES ASSUME result = Ok("pacts") PROVE EveryPactIsAccountedFor
    BY DEF EveryPactIsAccountedFor
  <2>1. pc = "done" /\ listed \in Seq(PactLinkKinds \cup {"garbage"}) /\ fetched \in Seq(Outcomes)
    BY <1>2 DEF BrokerInv, Control, PlaceIsRight, Ok
  <2>2. /\ Len(fetched) + Len(todo) = Len(listed) /\ Len(todo) = 0
        /\ \A k \in 1 .. Len(fetched) :
             /\ fetched[k].ok <=> \E t \in told : Answer(k, t)
             /\ Fetchable(listed[k]) <=> \E t \in told : t.link = k
        /\ \A t, u \in told : t.link = u.link => t = u
    BY <1>2, <2>1 DEF BrokerInv, Accounts
  <2>3. Len(fetched) = Len(listed) /\ DOMAIN listed = 1 .. Len(fetched)
    BY <2>1, <2>2
  <2> QED
    BY <2>2, <2>3 DEF EveryPactIsAccountedFor, Answer
<1>3. ASSUME BrokerInv PROVE FailsBeforePacts
  BY <1>3 DEF BrokerInv, AskedLate, FailsBeforePacts
<1> QED
  BY <1>1, <1>2, <1>3, BrokerBooksAgree, PTL DEF PactsAreAccountedFor

(* Nothing is recorded twice but by a request that was sent again after a  *)
(* 50x.                                                                    *)
THEOREM PostedTwice == Spec => []PostedTwiceOnlyAfter50x
<1>1. BrokerInv => PostedTwiceOnlyAfter50x
  BY DEF BrokerInv, Counts, PostedTwiceOnlyAfter50x
<1> QED
  BY <1>1, BrokerBooksAgree, PTL

LEMMA StepPublication ==
  ASSUME BrokerInv, BrokerInv', [Next]_vars
  PROVE  [Publication!Next]_(Publication!vars)
<1> DEFINE R == {item \in Items : recorded[item] > 0}
           reply == IF pc # "done" \/ job.op # "publish" THEN "none"
                    ELSE IF result.ok THEN "ok" ELSE "error"
<1>1. CASE UNCHANGED vars
  BY <1>1 DEF vars, Publication!vars, Wants, TagsOf, Items
<1>2. CASE Next
  <2>1. job' = job /\ pc # "done" /\ (SendAgain => pc' = pc)
    BY <1>2, StepMoves, StepKinds DEF SendAgain, NeverAnswered, BrokerInv, PactFetched
  <2>2. Wants' = Wants /\ Items' = Items
    BY <2>1 DEF Wants, TagsOf, Items
  <2>3. R' = R \/ (Item \in Items /\ R' = R \cup {Item})
    <3>1. recorded' = recorded \/ \E answer \in Answers : Changes(answer)
      BY <1>2, StepMoves DEF SendAgain, NeverAnswered, Answers, BrokerInv
    <3>2. ASSUME NEW answer \in Answers, Changes(answer)
          PROVE  R' = R \/ (Item \in Items /\ R' = R \cup {Item})
      <4>1. /\ \A item \in Items : item # Item => recorded'[item] = recorded[item]
            /\ Item \in Items => recorded'[Item] \in {recorded[Item], recorded[Item] + 1}
        BY <2>1, <3>2, ChangesCount DEF BrokerInv
      <4>2. Item \in Items => recorded[Item] \in Nat
        BY BrokerAssumption DEF BrokerInv, Counts
      <4> QED
        BY <2>2, <4>1, <4>2
    <3> QED
      BY <2>2, <3>1, <3>2
  <2>4. CASE job.op # "publish"
    <3>1. Item \notin Items
      BY <2>4, ItemsDiffer DEF BrokerInv, Control, PlaceIsRight, PublishRequests, Item
    <3>2. R' = R /\ reply = "none" /\ reply' = "none"
      BY <2>1, <2>3, <2>4, <3>1
    <3> QED
      BY <2>2, <3>2 DEF Publication!vars
  <2>5. CASE job.op = "publish"
    <3>1. Item \in Items => Item \in Wants \/ (Wants \subseteq R /\ Item = <<"results", 0>>)
      <4>1. CASE pc = "branch"
        BY <4>1 DEF Item, Wants, BrokerInv, Control, PlaceIsRight
      <4>2. CASE pc = "tag"
        BY <4>2, TagIsNext DEF BrokerInv, Wants, TagsOf
      <4>3. CASE pc = "results"
        <5>1. \A item \in Wants : item \in R
          BY <4>3, ItemsDiffer DEF BrokerInv, InOrder, Wants, TagsOf
        <5> QED
          BY <4>3, <5>1 DEF Item
      <4>4. CASE pc \notin {"branch", "tag", "results"}
        BY <4>4, ItemsDiffer DEF Item
      <4> QED
        BY <4>1, <4>2, <4>3, <4>4
    <3>2. reply = "none"
      BY <2>1
    <3>3. CASE pc' # "done"
      <4>1. reply' = "none"
        BY <3>3
      <4> HIDE DEF R, reply
      <4>2. CASE R' = R
        BY <2>2, <3>2, <4>1, <4>2 DEF Publication!vars, R, reply
      <4>3. CASE Item \in Items /\ R' = R \cup {Item}
        BY <2>2, <3>1, <3>2, <4>1, <4>3 DEF Publication!Next, Publication!Record, Publication!Allowed, R, reply
      <4> QED
        BY <2>3, <4>2, <4>3
    <3>4. CASE pc' = "done"
      <4>1. reply' = IF result'.ok THEN "ok" ELSE "error"
        BY <2>1, <2>5, <3>4
      <4>2. result'.ok => Wants \cup {<<"results", 0>>} \subseteq R'
        BY <2>1, <2>2, <2>5, <3>4, ItemsDiffer DEF BrokerInv, InOrder, Wants, TagsOf
      <4>3. CASE result'.ok
        <5>1. reply' = "ok" /\ Wants \cup {<<"results", 0>>} \subseteq R'
          BY <4>1, <4>2, <4>3
        <5>2. Publication!Reply("ok")
          BY <2>2, <2>3, <3>1, <3>2, <5>1 DEF Publication!Reply, Publication!Allowed
        <5> QED
          BY <5>2 DEF Publication!Next
      <4>4. CASE ~result'.ok
        <5>1. reply' = "error"
          BY <4>1, <4>4
        <5>2. Publication!Reply("error")
          BY <2>2, <2>3, <3>1, <3>2, <5>1 DEF Publication!Reply, Publication!Allowed
        <5> QED
          BY <5>2 DEF Publication!Next
      <4> QED
        BY <4>3, <4>4
    <3> QED
      BY <3>3, <3>4
  <2> QED
    BY <2>4, <2>5
<1> QED
  BY <1>1, <1>2

(* Publishing implements its promise: results after branch and tags, and   *)
(* success only when everything was recorded.                              *)
THEOREM PublishesAsPromised == Spec => ImplementsPublication
<1>1. Init => Publication!Init
  BY ItemsDiffer DEF Init, Publication!Init
<1>2. BrokerInv /\ BrokerInv' /\ [Next]_vars => [Publication!Next]_(Publication!vars)
  BY StepPublication
<1> QED
  BY <1>1, <1>2, BrokerBooksAgree, PTL DEF Spec, Publication!Spec, ImplementsPublication

-----------------------------------------------------------------------------
(* The payload.                                                            *)

\* A function on 1..n is constant on a stretch around k that nothing longer contains.
LEMMA Neighbours ==
  ASSUME NEW n \in Nat, NEW k \in 1 .. n, NEW f
  PROVE  \E first \in 1 .. k, last \in k .. n :
           /\ \A m \in first .. last : f[m] = f[k]
           /\ first = 1 \/ f[first - 1] # f[k]
           /\ last = n \/ f[last + 1] # f[k]
<1>1. PICK last \in k .. n : /\ last = n \/ f[last + 1] # f[k]
                             /\ \A m \in k .. n : (m = n \/ f[m + 1] # f[k]) => last <= m
  <2> DEFINE Ends == {m \in k .. n : m = n \/ f[m + 1] # f[k]}
  <2>1. n \in Ends /\ Ends \subseteq Nat
    OBVIOUS
  <2>2. PICK last \in Ends : \A m \in Ends : last <= m
    <3> HIDE DEF Ends
    <3> QED
      BY <2>1, LeastNatural
  <2> QED
    BY <2>2
<1>2. PICK first \in 1 .. k : /\ first = 1 \/ f[first - 1] # f[k]
                              /\ \A m \in 1 .. k : (m = 1 \/ f[m - 1] # f[k]) => m <= first
  <2> DEFINE Starts == {d \in 0 .. k - 1 : k - d = 1 \/ f[(k - d) - 1] # f[k]}
  <2>1. k - 1 \in Starts /\ Starts \subseteq Nat
    <3>1. k - (k - 1) = 1
      OBVIOUS
    <3> QED
      BY <3>1
  <2>2. PICK d \in Starts : \A e \in Starts : d <= e
    <3> HIDE DEF Starts
    <3> QED
      BY <2>1, LeastNatural
  <2>3. ASSUME NEW m \in 1 .. k, m = 1 \/ f[m - 1] # f[k]
        PROVE  m <= k - d
    <3>1. k - (k - m) = m /\ k - m \in 0 .. k - 1
      OBVIOUS
    <3>2. k - m \in Starts
      BY <2>3, <3>1
    <3>3. d <= k - m /\ d \in Nat
      BY <2>2, <3>2
    <3> HIDE DEF Starts
    <3> QED
      BY <3>3
  <2>4. k - d \in 1 .. k /\ (k - d = 1 \/ f[(k - d) - 1] # f[k])
    BY <2>2
  <2> HIDE DEF Starts
  <2> QED
    BY <2>3, <2>4
<1>3. ASSUME NEW m \in k .. last
      PROVE  f[m] = f[k]
  <2>1. CASE m = k
    BY <2>1
  <2>2. CASE m # k
    <3>1. m - 1 \in k .. n /\ m - 1 < last /\ m - 1 # n /\ (m - 1) + 1 = m
      BY <2>2
    <3>2. f[(m - 1) + 1] = f[k]
      <4> DEFINE p == m - 1
      <4>1. p \in k .. n /\ ~(last <= p) /\ p # n
        BY <3>1
      <4> HIDE DEF p
      <4>2. f[p + 1] = f[k]
        BY <1>1, <4>1
      <4> QED
        BY <4>2 DEF p
    <3> QED
      BY <3>1, <3>2
  <2> QED
    BY <2>1, <2>2
<1>4. ASSUME NEW m \in first .. k
      PROVE  f[m] = f[k]
  <2>1. CASE m = k
    BY <2>1
  <2>2. CASE m # k
    <3>1. m + 1 \in 1 .. k /\ ~(m + 1 <= first) /\ m + 1 # 1 /\ (m + 1) - 1 = m
      BY <2>2
    <3>2. f[(m + 1) - 1] = f[k]
      <4> DEFINE p == m + 1
      <4>1. p \in 1 .. k /\ ~(p <= first) /\ p # 1
        BY <3>1
      <4> HIDE DEF p
      <4>2. f[p - 1] = f[k]
        BY <1>2, <4>1
      <4> QED
        BY <4>2 DEF p
    <3> QED
      BY <3>1, <3>2
  <2> QED
    BY <2>1, <2>2
<1>5. \A m \in first .. last : f[m] = f[k]
  <2> TAKE m \in first .. last
  <2>1. m \in first .. k \/ m \in k .. last
    OBVIOUS
  <2> QED
    BY <1>3, <1>4, <2>1
<1> QED
  BY <1>1, <1>2, <1>5

\* Each result is in a chunk of neighbours with its id.
LEMMA InAChunk ==
  ASSUME NEW results, Len(results) \in Nat, DOMAIN results = 1 .. Len(results),
         NEW k \in DOMAIN results
  PROVE  \E c \in Chunks(results) :
           c[1] <= k /\ k <= c[2] /\ results[c[1]].id = results[k].id
<1> DEFINE n == Len(results)
           f == [m \in 0 .. n + 1 |-> results[m].id]
<1>1. n \in Nat /\ k \in 1 .. n /\ DOMAIN results = 1 .. n
  OBVIOUS
<1> HIDE DEF n
<1>2. \A m \in 0 .. n + 1 : f[m] = results[m].id
  OBVIOUS
<1> HIDE DEF f
<1>3. PICK first \in 1 .. k, last \in k .. n :
           /\ \A m \in first .. last : f[m] = f[k]
           /\ first = 1 \/ f[first - 1] # f[k]
           /\ last = n \/ f[last + 1] # f[k]
  <2>1. \A N \in Nat : \A K \in 1 .. N : \A g :
          \E first \in 1 .. K, last \in K .. N :
            /\ \A m \in first .. last : g[m] = g[K]
            /\ first = 1 \/ g[first - 1] # g[K]
            /\ last = N \/ g[last + 1] # g[K]
    BY Neighbours, Zenon
  <2>2. \A g : \E first \in 1 .. k, last \in k .. n :
            /\ \A m \in first .. last : g[m] = g[k]
            /\ first = 1 \/ g[first - 1] # g[k]
            /\ last = n \/ g[last + 1] # g[k]
    BY <1>1, <2>1, Zenon
  <2> QED
    BY <2>2, Zenon
<1>4. /\ first \in 0 .. n + 1 /\ first - 1 \in 0 .. n + 1
      /\ last \in 0 .. n + 1 /\ last + 1 \in 0 .. n + 1
      /\ k \in 0 .. n + 1 /\ first \in first .. last
      /\ first .. last \subseteq 0 .. n + 1
      /\ first \in 1 .. n /\ last \in 1 .. n /\ first <= k /\ k <= last /\ first <= last
  BY <1>1
<1>5. f[first] = f[k]
  BY <1>3, <1>4
<1>6. results[first].id = results[k].id
  BY <1>2, <1>4, <1>5
<1>7. \A m \in first .. last : results[m].id = results[first].id
  BY <1>2, <1>3, <1>4, <1>6
<1>8. first = 1 \/ results[first - 1].id # results[first].id
  BY <1>2, <1>3, <1>4, <1>5
<1>9. last = n \/ results[last + 1].id # results[first].id
  BY <1>2, <1>3, <1>4, <1>5
<1>10. <<first, last>> \in Chunks(results)
  BY <1>1, <1>4, <1>7, <1>8, <1>9 DEF Chunks, n
<1> QED
  BY <1>4, <1>6, <1>10

\* What PayloadTellsTheResults says of a payload, for any results.
TellsTheResults(body, results) ==
  /\ body.success <=> \A k \in DOMAIN results : results[k].says = "passed"
  /\ \A k \in DOMAIN results :
       results[k].says \in {"mismatch", "error"} =>
         [id |-> results[k].id, success |-> FALSE] \in body.tests
  /\ \A k \in DOMAIN results :
       /\ results[k].id # ""
       /\ \E c \in Chunks(results) :
            \A j \in DOMAIN results : results[j].id = results[k].id <=> j \in c[1]..c[2]
       => {test \in body.tests : test.id = results[k].id} =
            {[id |-> results[k].id,
              success |-> \A m \in DOMAIN results :
                            results[m].id = results[k].id =>
                              ~(results[m].says \in {"mismatch", "error"})]}
  /\ \A test \in body.tests : test.success =>
       \E c \in Chunks(results) :
         /\ results[c[1]].id = test.id
         /\ \A k \in c[1]..c[2] : ~(results[k].says \in {"mismatch", "error"})

\* A chunk lies within the results and has one id.
LEMMA ChunksLieWithin ==
  ASSUME NEW results, Len(results) \in Nat, DOMAIN results = 1 .. Len(results),
         NEW c \in Chunks(results)
  PROVE  /\ c[1] \in DOMAIN results /\ c[1] \in c[1] .. c[2]
         /\ \A m \in c[1] .. c[2] : m \in DOMAIN results /\ results[m].id = results[c[1]].id
BY DEF Chunks

\* Where all results of an interaction are in one chunk, it has no other.
LEMMA OneChunk ==
  ASSUME NEW results, Len(results) \in Nat, DOMAIN results = 1 .. Len(results),
         NEW c \in Chunks(results), NEW d \in Chunks(results),
         \A j \in DOMAIN results : results[j].id = results[c[1]].id => j \in c[1] .. c[2],
         results[d[1]].id = results[c[1]].id
  PROVE  d = c
<1>1. /\ c \in (1 .. Len(results)) \X (1 .. Len(results)) /\ c[1] <= c[2]
      /\ d \in (1 .. Len(results)) \X (1 .. Len(results)) /\ d[1] <= d[2]
  BY DEF Chunks
<1>2. d[1] \in c[1] .. c[2] /\ d[2] \in c[1] .. c[2]
  <2>1. d[1] \in d[1] .. d[2] /\ d[2] \in d[1] .. d[2]
    BY <1>1
  <2> QED
    BY <2>1, ChunksLieWithin
<1>3. d[1] = c[1]
  <2> SUFFICES ASSUME d[1] # c[1] PROVE FALSE
    OBVIOUS
  <2>1. d[1] - 1 \in c[1] .. c[2] /\ d[1] # 1
    BY <1>1, <1>2
  <2>2. results[d[1] - 1].id = results[c[1]].id
    BY <2>1, ChunksLieWithin
  <2>3. d[1] = 1 \/ results[d[1] - 1].id # results[d[1]].id
    BY DEF Chunks
  <2> QED
    BY <2>1, <2>2, <2>3
<1>4. d[2] = c[2]
  <2> SUFFICES ASSUME d[2] # c[2] PROVE FALSE
    OBVIOUS
  <2>1. d[2] + 1 \in c[1] .. c[2] /\ d[2] # Len(results)
    BY <1>1, <1>2
  <2>2. results[d[2] + 1].id = results[c[1]].id
    BY <2>1, ChunksLieWithin
  <2>3. d[2] = Len(results) \/ results[d[2] + 1].id # results[d[1]].id
    BY DEF Chunks
  <2> QED
    BY <2>1, <2>2, <2>3
<1> QED
  BY <1>1, <1>3, <1>4

\* What the payload says, result by result.
LEMMA PayloadIsTrue ==
  ASSUME NEW results, Len(results) \in Nat, DOMAIN results = 1 .. Len(results)
  PROVE  TellsTheResults(BuildPayload(results), results)
<1> DEFINE body == BuildPayload(results)
           Failed(m) == results[m].says \in {"mismatch", "error"}
           Good(c) == \A m \in c[1]..c[2] : ~Failed(m)
           Fine(id) == \A m \in DOMAIN results : results[m].id = id => ~Failed(m)
           Told(id) == [id |-> id, success |-> Fine(id)]
           Whole(c, id) == \A j \in DOMAIN results : results[j].id = id <=> j \in c[1]..c[2]
<1>1. body.success <=> \A k \in DOMAIN results : results[k].says = "passed"
  BY DEF BuildPayload, Succeeded
<1>2. CASE Succeeded(results)
  <2>1. body.tests = {[id |-> results[k].id, success |-> TRUE] :
                        k \in {k \in DOMAIN results : results[k].id # ""}}
    BY <1>2 DEF BuildPayload
  <2>2. \A k \in DOMAIN results : ~Failed(k)
    BY <1>2 DEF Succeeded
  <2> HIDE DEF body, Failed
  <2>3. \A id : Fine(id) = TRUE
    BY <2>2
  <2> HIDE DEF Fine
  <2>4. ASSUME NEW k \in DOMAIN results, results[k].id # ""
        PROVE  {test \in body.tests : test.id = results[k].id} = {Told(results[k].id)}
    <3>1. ASSUME NEW test \in body.tests, test.id = results[k].id
          PROVE  test = Told(results[k].id)
      <4>1. PICK j \in {j \in DOMAIN results : results[j].id # ""} :
              test = [id |-> results[j].id, success |-> TRUE]
        BY <2>1
      <4>2. results[j].id = results[k].id
        BY <3>1, <4>1
      <4> QED
        BY <2>3, <4>1, <4>2
    <3>2. Told(results[k].id) \in body.tests /\ Told(results[k].id).id = results[k].id
      BY <2>1, <2>3, <2>4
    <3> HIDE DEF Told
    <3> QED
      BY <3>1, <3>2
  <2>5. ASSUME NEW test \in body.tests
        PROVE  \E c \in Chunks(results) : results[c[1]].id = test.id /\ Good(c)
    <3>1. PICK k \in DOMAIN results : test.id = results[k].id
      <4>1. PICK j \in {j \in DOMAIN results : results[j].id # ""} :
              test = [id |-> results[j].id, success |-> TRUE]
        BY <2>1
      <4>2. test.id = results[j].id
        BY <4>1
      <4> QED
        BY <4>2
    <3>2. PICK c \in Chunks(results) : results[c[1]].id = results[k].id
      BY InAChunk
    <3>3. Good(c)
      BY <2>2, ChunksLieWithin
    <3> QED
      BY <3>1, <3>2, <3>3
  <2> QED
    BY <1>1, <2>2, <2>4, <2>5 DEF TellsTheResults, body, Failed, Fine
<1>3. CASE ~Succeeded(results)
  <2>1. body.tests = {[id |-> results[c[1]].id, success |-> Good(c)] : c \in Chunks(results)}
    BY <1>3 DEF BuildPayload
  <2> HIDE DEF body, Failed
  <2>2. ASSUME NEW k \in DOMAIN results, Failed(k)
        PROVE  [id |-> results[k].id, success |-> FALSE] \in body.tests
    <3>1. PICK c \in Chunks(results) : c[1] <= k /\ k <= c[2] /\ results[c[1]].id = results[k].id
      BY InAChunk
    <3>2. k \in c[1] .. c[2]
      BY <3>1 DEF Chunks
    <3>3. Good(c) = FALSE
      BY <2>2, <3>2
    <3> HIDE DEF Good
    <3> QED
      BY <2>1, <3>1, <3>3
  <2>3. ASSUME NEW k \in DOMAIN results, NEW c \in Chunks(results), Whole(c, results[k].id)
        PROVE  {test \in body.tests : test.id = results[k].id} = {Told(results[k].id)}
    <3>1. k \in c[1] .. c[2] /\ results[c[1]].id = results[k].id
      BY <2>3, ChunksLieWithin
    <3>2. ASSUME NEW d \in Chunks(results), results[d[1]].id = results[k].id
          PROVE  Good(d) = Fine(results[k].id)
      <4>1. d = c
        BY <2>3, <3>1, <3>2, OneChunk
      <4>2. \A m : m \in c[1] .. c[2] <=> m \in DOMAIN results /\ results[m].id = results[k].id
        BY <2>3, ChunksLieWithin
      <4> QED
        BY <4>1, <4>2
    <3> HIDE DEF Good, Fine
    <3>3. \A test \in body.tests : test.id = results[k].id => test = Told(results[k].id)
      <4> TAKE test \in body.tests
      <4>1. PICK d \in Chunks(results) : test = [id |-> results[d[1]].id, success |-> Good(d)]
        BY <2>1
      <4>2. test.id = results[d[1]].id
        BY <4>1
      <4> QED
        BY <3>2, <4>1, <4>2
    <3>4. Told(results[k].id) \in body.tests /\ Told(results[k].id).id = results[k].id
      BY <2>1, <3>1, <3>2
    <3> HIDE DEF Told
    <3> QED
      BY <3>3, <3>4
  <2>4. ASSUME NEW test \in body.tests, test.success
        PROVE  \E c \in Chunks(results) : results[c[1]].id = test.id /\ Good(c)
    <3> HIDE DEF Good
    <3>1. PICK c \in Chunks(results) : test = [id |-> results[c[1]].id, success |-> Good(c)]
      BY <2>1
    <3> QED
      BY <2>4, <3>1
  <2> QED
    BY <1>1, <2>2, <2>3, <2>4 DEF TellsTheResults, body, Failed
<1> QED
  BY <1>2, <1>3

(* The payload is a success only if every result is one; every result with *)
(* a mismatch or an error is told as a failure; an interaction whose       *)
(* results are together has one entry, which is a failure exactly if one   *)
(* of them is; and a success is told of an interaction only for a stretch  *)
(* of its results without any.                                             *)
THEOREM PayloadFaithful == Spec => []PayloadTellsTheResults
<1>1. BrokerInv => PayloadTellsTheResults
  <2>1. SUFFICES ASSUME BrokerInv
                 PROVE  PayloadTellsTheResults
    OBVIOUS
  <2>2. Len(job.results) \in Nat /\ DOMAIN job.results = 1 .. Len(job.results)
    BY <2>1, JobsAssumption DEF BrokerInv, Control
  <2>3. TellsTheResults(BuildPayload(job.results), job.results)
    BY <2>2, PayloadIsTrue
  <2> QED
    BY <2>3, Zenon DEF TellsTheResults, PayloadTellsTheResults, HasFailed, Together
<1> QED
  BY <1>1, BrokerBooksAgree, PTL
=============================================================================
