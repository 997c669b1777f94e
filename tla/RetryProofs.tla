---------------------------- MODULE RetryProofs ----------------------------
(***************************************************************************)
(* Proofs about Retry for any number of retries.                           *)
(***************************************************************************)
EXTENDS Retry, TLAPS

(* Appending an answer: what is in the longer sequence, and where.         *)
LEMMA AppendAnswer ==
  ASSUME NEW seq \in Seq(Answers), NEW a \in Answers
  PROVE  /\ Append(seq, a) \in Seq(Answers) /\ Append(seq, a) # <<>>
         /\ Len(Append(seq, a)) = Len(seq) + 1
         /\ Append(seq, a)[Len(seq) + 1] = a
         /\ \A k \in 1 .. Len(seq) : Append(seq, a)[k] = seq[k]
  OBVIOUS

(* Every variable keeps its type: the attempts never exceed the parameter. *)
THEOREM TypeCorrect == Spec => []TypeOK
<1>1. Init => TypeOK
  <2> SUFFICES ASSUME Init PROVE TypeOK
    OBVIOUS
  <2>1. cloneable \in BOOLEAN /\ timeout \in BOOLEAN /\ request \in BOOLEAN /\ waiting \in BOOLEAN
    BY Zenon DEF Init
  <2>2. /\ retries \in 0 .. MaxRetries /\ attempt \in 0 .. retries
        /\ response = "none" /\ answers = <<>> /\ result = "none"
    BY RetryAssumption DEF Init
  <2> QED
    BY <2>1, <2>2 DEF TypeOK
<1>2. TypeOK /\ [Next]_vars => TypeOK'
  <2> SUFFICES ASSUME TypeOK, [Next]_vars PROVE TypeOK'
    OBVIOUS
  <2> USE RetryAssumption DEF TypeOK
  <2>1. CASE SendOnce
    BY <2>1 DEF SendOnce, Send, Running
  <2>2. CASE Step
    <3>1. attempt' \in 0 .. retries'
      BY <2>2 DEF Step, Round, Rounds
    <3>2. request' \in BOOLEAN /\ response' \in Answers \union {"none"}
          /\ answers' \in Seq(Answers)
      BY <2>2, AppendAnswer DEF Step, Round, Send
    <3> QED
      BY <2>2, <3>1, <3>2 DEF Step
  <2>3. CASE NeverAnswered
    BY <2>3 DEF NeverAnswered
  <2>4. CASE Return
    BY <2>4 DEF Return
  <2>5. CASE UNCHANGED vars
    BY <2>5 DEF vars
  <2> QED
    BY <2>1, <2>2, <2>3, <2>4, <2>5 DEF Next
<1> QED
  BY <1>1, <1>2, PTL DEF Spec

(* One more answer may be appended when nothing but a 50x came before it.  *)
LEMMA OneMoreAnswer ==
  ASSUME TypeOK, FoldInv, NEW a \in Answers, Send(a), Wanted
  PROVE  /\ response' = answers'[Len(answers')] /\ answers' # <<>>
         /\ response' # "none" /\ Len(answers') = Len(answers) + 1
         /\ OnlyServerErrorsAreRetried'
<1>1. /\ answers' = Append(answers, a) /\ response' = a
      /\ answers \in Seq(Answers) /\ Len(answers) \in Nat
  BY DEF Send, TypeOK
<1>2. answers # <<>> => answers[Len(answers)] = "serverError"
  BY DEF FoldInv, Wanted
<1>3. OnlyServerErrorsAreRetried'
  <2> SUFFICES ASSUME NEW k \in 1 .. Len(answers') - 1
               PROVE  answers'[k] = "serverError"
    BY DEF OnlyServerErrorsAreRetried
  <2>1. k \in 1 .. Len(answers) /\ answers'[k] = answers[k] /\ answers # <<>>
    BY <1>1, AppendAnswer
  <2>2. CASE k = Len(answers)
    BY <1>2, <2>1, <2>2
  <2>3. CASE k # Len(answers)
    BY <1>1, <2>1, <2>3 DEF FoldInv, OnlyServerErrorsAreRetried
  <2> QED
    BY <2>2, <2>3
<1> QED
  BY <1>1, <1>3, AppendAnswer DEF Answers

(* The invariant of the fold: as long as a request is wanted there is one, *)
(* and every attempt so far has been sent.                                 *)
THEOREM FoldCorrect == Spec => []RetryInv
<1>1. Init => FoldInv
  BY RetryAssumption DEF Init, FoldInv, OnlyServerErrorsAreRetried, PanicsOnlyForZero, Answers
<1>2. TypeOK /\ FoldInv /\ [Next]_vars => FoldInv'
  <2> SUFFICES ASSUME TypeOK, FoldInv, [Next]_vars PROVE FoldInv'
    OBVIOUS
  <2>t. /\ answers \in Seq(Answers) /\ Len(answers) \in Nat /\ attempt \in Nat
        /\ retries \in Nat /\ "none" \notin Answers /\ "panic" \notin Answers
    BY RetryAssumption DEF TypeOK, Answers
  <2>1. CASE SendOnce
    <3>1. PICK a \in Answers : Send(a) /\ result' = a
      BY <2>1 DEF SendOnce
    <3>2. answers = <<>> /\ response = "none" /\ ~cloneable /\ ~waiting
      BY <2>1 DEF SendOnce, Running, FoldInv
    <3>3. Wanted
      BY <3>2 DEF Wanted
    <3>4. Len(answers') = 1 /\ response' = a
      BY <3>1, <3>2, <3>3, OneMoreAnswer DEF Send
    <3> QED
      BY <2>1, <2>t, <3>1, <3>2, <3>3, <3>4, OneMoreAnswer
      DEF SendOnce, FoldInv, PanicsOnlyForZero
  <2>2. CASE Step
    <3>1. /\ cloneable /\ result = "none" /\ attempt' = attempt + 1
          /\ UNCHANGED <<retries, cloneable, timeout, waiting, result>>
      BY <2>2 DEF Step, Round, Running
    <3>2. CASE request /\ Wanted
      <4>1. PICK a \in Answers : Send(a) /\ request' = request
        BY <2>2, <3>2 DEF Step, Round
      <4>2. Len(answers) = attempt
        BY <3>1, <3>2 DEF FoldInv, Wanted
      <4> QED
        BY <2>t, <3>1, <3>2, <4>1, <4>2, OneMoreAnswer DEF FoldInv, PanicsOnlyForZero
    <3>3. CASE ~(request /\ Wanted)
      <4>1. UNCHANGED <<response, answers>> /\ response \notin {"none", "serverError"}
        BY <2>2, <3>1, <3>3 DEF Step, Round, FoldInv, Wanted
      <4> QED
        BY <2>t, <3>1, <4>1 DEF FoldInv, OnlyServerErrorsAreRetried, PanicsOnlyForZero
    <3> QED
      BY <3>2, <3>3
  <2>3. CASE NeverAnswered
    BY <2>3 DEF NeverAnswered, Running, FoldInv, OnlyServerErrorsAreRetried, PanicsOnlyForZero
  <2>4. CASE Return
    <3>1. /\ cloneable /\ result' = IF response = "none" THEN "panic" ELSE response
          /\ ~waiting
          /\ UNCHANGED <<retries, cloneable, attempt, request, response, waiting, answers>>
      BY <2>4 DEF Return, Running
    <3>2. attempt = retries
      BY <2>4, <2>t DEF Return, Rounds, TypeOK
    <3>3. response = "none" => retries = 0
      BY <3>1, <3>2 DEF FoldInv
    <3> QED
      BY <2>t, <3>1, <3>2, <3>3 DEF FoldInv, OnlyServerErrorsAreRetried, PanicsOnlyForZero
  <2>5. CASE UNCHANGED vars
    BY <2>5 DEF vars, FoldInv, OnlyServerErrorsAreRetried, PanicsOnlyForZero
  <2> QED
    BY <2>1, <2>2, <2>3, <2>4, <2>5 DEF Next
<1> QED
  BY <1>1, <1>2, TypeCorrect, PTL DEF Spec, RetryInv

(* with_retries returns the last answer, sends at most "retries" requests, *)
(* repeats only a 50x, and panics for retries = 0 only.                    *)
THEOREM RetriesAreBounded ==
  Spec => []WithinItsRetries
<1>1. TypeOK /\ FoldInv => WithinItsRetries
  <2> SUFFICES ASSUME TypeOK, FoldInv
               PROVE  GivesUpLast /\ AtMostRetries
    BY DEF FoldInv, WithinItsRetries
  <2>1. GivesUpLast
    <3> SUFFICES ASSUME result \in Answers
                 PROVE  /\ answers # <<>> /\ result = answers[Len(answers)]
                        /\ result = "serverError" /\ cloneable => Len(answers) = retries
      BY DEF GivesUpLast
    <3>1. result = response /\ response # "none"
      BY DEF FoldInv, Answers
    <3> QED
      BY <3>1 DEF FoldInv
  <2>2. AtMostRetries
    BY RetryAssumption DEF AtMostRetries, FoldInv, TypeOK
  <2> QED
    BY <2>1, <2>2
<1> QED
  BY <1>1, FoldCorrect, PTL DEF RetryInv
=============================================================================
