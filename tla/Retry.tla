------------------------------- MODULE Retry -------------------------------
(***************************************************************************)
(* with_retries of pact_verifier/src/utils.rs: the request to a provider   *)
(* state handler or to the Pact Broker is sent again while the answer is a *)
(* 50x.  The code folds over the attempts 1 .. retries with the pair (last *)
(* response, request still to be sent); one step of the model is one step  *)
(* of the fold.  Back-off times are left out.  The client that sends the   *)
(* state change requests has a timeout (configure_http_client), the one    *)
(* for the broker has none (HALClient::default).                           *)
(***************************************************************************)
EXTENDS Integers, Sequences

CONSTANT MaxRetries   \* bound on the u8 parameter retries

ASSUME RetryAssumption == MaxRetries \in Nat

(* What comes back from send(): a response that is fine, one the server    *)
(* blames on the client, a 50x, or no response (refused, timed out).       *)
Answers == {"ok", "clientError", "serverError", "noResponse"}

VARIABLES
  retries,     \* the parameter
  cloneable,   \* the request can be cloned, so it can be sent again
  timeout,     \* the client has one: the provider's does, HALClient's not
  attempt,     \* steps of the fold taken
  request,     \* the fold still holds a request
  response,    \* the last response held by the fold, or "none"
  waiting,     \* a request was sent that is never answered
  answers,     \* history: the answers to what was sent
  result       \* what with_retries returned: "none" before, or "panic"

vars == <<retries, cloneable, timeout, attempt, request, response, waiting,
          answers, result>>

Init ==
  /\ retries \in 0 .. MaxRetries /\ cloneable \in BOOLEAN /\ timeout \in BOOLEAN
  /\ attempt = 0 /\ request = TRUE /\ response = "none" /\ waiting = FALSE
  /\ answers = <<>> /\ result = "none"

-----------------------------------------------------------------------------
(* The call goes on.                                                       *)
Running == result = "none" /\ ~waiting

Send(answer) ==
  /\ response' = answer
  /\ answers' = Append(answers, answer)

(* request.try_clone() is None: it is sent once and never again.           *)
SendOnce ==
  /\ ~cloneable /\ Running
  /\ \E answer \in Answers : Send(answer) /\ result' = answer
  /\ UNCHANGED <<retries, cloneable, timeout, attempt, request, waiting>>

(* Mutant of Wanted: every failure is tried again.                         *)
MWantedAlways == response # "ok"

(* The request is sent when nothing has come back yet, or a 50x has.       *)
Wanted == response \in {"none", "serverError"}

(* Mutant of Rounds: one attempt and then the retries.                     *)
MRounds == 1 .. retries + 1

(* The attempts: (1..=retries).                                            *)
Rounds == 1 .. retries

(* One step of the fold; a request that is not wanted is given up.         *)
Round ==
  /\ IF request /\ Wanted
     THEN (\E answer \in Answers : Send(answer)) /\ UNCHANGED request
     ELSE request' = FALSE /\ UNCHANGED <<response, answers>>
  /\ attempt' = attempt + 1

Step ==
  /\ cloneable /\ Running /\ attempt + 1 \in Rounds
  /\ Round
  /\ UNCHANGED <<retries, cloneable, timeout, waiting, result>>

(* A request is sent and nothing ever comes back: only a client without a  *)
(* timeout waits for it.                                                   *)
NeverAnswered ==
  /\ Running /\ ~timeout
  /\ cloneable => attempt + 1 \in Rounds /\ request /\ Wanted
  /\ waiting' = TRUE
  /\ UNCHANGED <<retries, cloneable, timeout, attempt, request, response, answers, result>>

(* Mutant of Return: a 50x is never returned.                              *)
MReturn ==
  /\ cloneable /\ Running /\ attempt + 1 \notin Rounds
  /\ response # "serverError"
  /\ result' = IF response = "none" THEN "panic" ELSE response
  /\ UNCHANGED <<retries, cloneable, timeout, attempt, request, response, waiting, answers>>

(* .0.unwrap() of a fold that never ran panics.                            *)
Return ==
  /\ cloneable /\ Running /\ attempt + 1 \notin Rounds
  /\ result' = IF response = "none" THEN "panic" ELSE response
  /\ UNCHANGED <<retries, cloneable, timeout, attempt, request, response, waiting, answers>>

Next == SendOnce \/ Step \/ NeverAnswered \/ Return

Spec == Init /\ [][Next]_vars

(* A send() comes back, be it by the client's timeout, or is one that      *)
(* never does, which is an action of its own: the task goes on either way. *)
FairSpec == Spec /\ WF_vars(Next)

-----------------------------------------------------------------------------
TypeOK ==
  /\ retries \in 0 .. MaxRetries /\ cloneable \in BOOLEAN
  /\ timeout \in BOOLEAN /\ waiting \in BOOLEAN
  /\ attempt \in 0 .. retries /\ request \in BOOLEAN
  /\ response \in Answers \union {"none"}
  /\ answers \in Seq(Answers)
  /\ result \in Answers \union {"none", "panic"}

(* A request is sent again only after a 50x: what has been answered        *)
(* otherwise, or may have been carried out without an answer, is not       *)
(* repeated (with_retries).                                                *)
OnlyServerErrorsAreRetried ==
  \A k \in 1 .. Len(answers) - 1 : answers[k] = "serverError"

(* What is returned is the last answer, and a 50x is returned only when    *)
(* the attempts are used up (fetch_retries_the_request_on_50x_errors).     *)
GivesUpLast ==
  result \in Answers =>
    /\ answers # <<>> /\ result = answers[Len(answers)]
    /\ result = "serverError" /\ cloneable => Len(answers) = retries

(* No more requests than asked for (make_state_change_request: "to a       *)
(* maximum of the retries parameter"), except for one that can't be cloned.*)
AtMostRetries == cloneable => Len(answers) <= retries

(* Only the call that asked for no attempt at all ends in a panic.         *)
PanicsOnlyForZero == result = "panic" => cloneable /\ retries = 0

(* The inductive invariant: where the fold is, and what it has seen.       *)
FoldInv ==
  /\ (response = "none") <=> (answers = <<>>)
  /\ answers # <<>> => response = answers[Len(answers)]
  /\ OnlyServerErrorsAreRetried
  /\ cloneable => Len(answers) <= attempt
  /\ cloneable /\ response \in {"none", "serverError"} => request /\ Len(answers) = attempt
  /\ ~cloneable => Len(answers) <= 1 /\ (result = "none" => answers = <<>>)
  /\ result \in Answers => result = response
  /\ result # "none" /\ cloneable => attempt = retries
  /\ waiting => ~timeout /\ result = "none"
  /\ PanicsOnlyForZero

(* What with_retries promises: no request but the last got another answer  *)
(* than a 50x, there are no more of them than asked for, and the last      *)
(* answer is what is returned.                                             *)
WithinItsRetries ==
  OnlyServerErrorsAreRetried /\ GivesUpLast /\ AtMostRetries /\ PanicsOnlyForZero

(* With the types the invariant is inductive.                              *)
RetryInv == TypeOK /\ FoldInv

(* Every call returns, after whatever answers, unless a request of it is   *)
(* never answered; a client with a timeout waits for none (RetryInv), one  *)
(* without (HALClient::default) may wait for ever.                         *)
Returns == <>(result # "none" \/ waiting)
=============================================================================
