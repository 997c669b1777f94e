--------------------------- MODULE FfiVerifierProofs ---------------------------
(***************************************************************************)
(* Proofs about what the C API reports: last errors, the logger, the log   *)
(* buffers and verifier handles (FfiLog and FfiVerifier), for any threads, *)
(* handles, providers and bounds.                                          *)
(*                                                                         *)
(* The four parts of the state hardly touch each other, so the invariant   *)
(* is one for each of them, and StepsAre says what a step does to each.    *)
(***************************************************************************)
EXTENDS FfiVerifier, SublistProofs, FiniteSetTheorems, SequenceTheorems

-----------------------------------------------------------------------------
(* What is kept.                                                           *)

\* An error that was not told yet is of its thread, and later than all told.
ErrorsOf(t) ==
  /\ lastError[t] # None =>
       /\ lastError[t] \in [of : {t}, n : 1 .. errors[t], bad : BOOLEAN]
       /\ \A k \in DOMAIN told[t] : told[t][k].n < lastError[t].n
  /\ \A k \in DOMAIN told[t] : told[t][k].of = t /\ told[t][k].n <= errors[t]
  /\ \A k \in DOMAIN told[t] : \A j \in 1 .. (k - 1) : told[t][j].n < told[t][k].n

ErrorsInOrder ==
  /\ errors \in [Threads -> Nat]
  /\ DOMAIN lastError = Threads /\ lastError = [t \in Threads |-> lastError[t]]
  /\ told \in [Threads -> Seq([of : Threads, n : Nat, bad : BOOLEAN])]
  /\ \A t \in Threads : ErrorsOf(t)

SinkSet == [sink : {"stdout", "buffer", "file"}, level : Nat]

\* A file that was accepted can be opened, unless it could be and vanished.
LoggerInOrder ==
  /\ logger \in [Threads -> Seq(SinkSet)]
  /\ subscriber # None => subscriber.sinks \in Seq(SinkSet)
  /\ canOpen \in BOOLEAN /\ vanished \in BOOLEAN
  /\ alive \/ vanished
  /\ \A t \in Threads : \A k \in DOMAIN logger[t] :
       logger[t][k].sink = "file" => canOpen \/ vanished

\* A text is in one buffer, and either fetched or not.
TextsAre(count, held, written, fetched, gone) ==
  /\ count \in Nat
  /\ gone \subseteq 1 .. count
  /\ DOMAIN held = Ids /\ DOMAIN written = Ids /\ DOMAIN fetched = Ids
  /\ \A id \in Ids :
       /\ held[id] \in Seq([n : 1 .. count, bad : BOOLEAN])
       /\ written[id] \in Seq(1 .. count)
       /\ fetched[id] \in Seq(1 .. count)
       /\ \A j \in DOMAIN fetched[id], k \in DOMAIN held[id] : fetched[id][j] # held[id][k].n
       /\ \A other \in Ids : \A j \in DOMAIN written[id], k \in DOMAIN written[other] :
            written[id][j] = written[other][k] => id = other
       /\ Within(written[id], Nat \ gone) = fetched[id] \o Numbers(held[id])

TextsInOrder == TextsAre(texts, buffer, wrote, delivered, lost)

Ends == {"passed", "failed", "impossible", "panicked"}

EndedRuns(count) == [n : 1 .. count, end : Ends]

\* What a handle reports of its runs.
Reports(value) ==
  /\ value.verdict = (LastDone(value.ended) = 0 \/ value.ended[LastDone(value.ended)].end = "passed")
  /\ value.lines = [k \in DOMAIN Shown(value.ended) |-> Shown(value.ended)[k].n]

\* A handle that new returned, as setters and count runs since then left it.
HandleIs(value, count) ==
  /\ value \in [name : Providers, transports : Seq({value.name}), sources : {value.sources},
                filter : {FilterInfo(value.asked[1], value.asked[2], value.asked[3])},
                asked : Texts \X Texts \X BOOLEAN,
                verdict : BOOLEAN, lines : Seq(1 .. count), ended : Seq(EndedRuns(count))]
  /\ Reports(value)

\* One thread at a time executes a run of a handle, and the handle stays.
HandlesInOrder ==
  /\ runs \in Nat
  /\ DOMAIN handle = Handles /\ DOMAIN running = Threads
  /\ \A h \in Handles : handle[h] # None => HandleIs(handle[h], runs)
  /\ \A t \in Threads : running[t] # None =>
       /\ running[t] \in [handle : Handles, n : 1 .. runs]
       /\ handle[running[t].handle] # None
       /\ \A u \in Threads : running[u] # None /\ running[u].handle = running[t].handle => u = t

ReportingInv == ErrorsInOrder /\ LoggerInOrder /\ TextsInOrder /\ HandlesInOrder

-----------------------------------------------------------------------------
(* Last errors.                                                            *)

LEMMA ErrorsStay ==
  ASSUME ErrorsInOrder, UNCHANGED errorVars
  PROVE  ErrorsInOrder'
<1>1. errors' = errors /\ lastError' = lastError /\ told' = told
  BY DEF errorVars
<1>2. ASSUME NEW t \in Threads PROVE ErrorsOf(t)'
  <2>1. ErrorsOf(t)
    BY DEF ErrorsInOrder
  <2> QED
    BY <1>1, <2>1 DEF ErrorsOf
<1> QED
  BY <1>1, <1>2 DEF ErrorsInOrder

LEMMA FailKeeps ==
  ASSUME ErrorsInOrder, NEW t \in Threads, NEW bad \in BOOLEAN, Fail(t, bad)
  PROVE  ErrorsInOrder'
<1> DEFINE error == [of |-> t, n |-> errors[t] + 1, bad |-> bad]
<1>1. /\ errors[t] \in Nat /\ told' = told
      /\ errors' = [errors EXCEPT ![t] = @ + 1]
      /\ lastError' = [lastError EXCEPT ![t] = error]
  BY DEF Fail, ErrorsInOrder, ErrorsOf
<1>2. error \in [of : {t}, n : 1 .. errors[t] + 1, bad : BOOLEAN] /\ error.n = errors[t] + 1
  BY <1>1
<1> HIDE DEF error
<1>3. /\ errors' \in [Threads -> Nat] /\ errors'[t] = errors[t] + 1
      /\ \A u \in Threads : u # t => errors'[u] = errors[u]
      /\ DOMAIN lastError' = Threads /\ lastError' = [u \in Threads |-> lastError'[u]]
      /\ lastError'[t] = error
      /\ \A u \in Threads : u # t => lastError'[u] = lastError[u]
  <2>1. errors \in [Threads -> Nat] /\ errors[t] + 1 \in Nat
    BY <1>1 DEF ErrorsInOrder, ErrorsOf
  <2>2. /\ errors' \in [Threads -> Nat] /\ errors'[t] = errors[t] + 1
        /\ \A u \in Threads : u # t => errors'[u] = errors[u]
    BY <1>1, <2>1
  <2>3. DOMAIN lastError = Threads
    BY DEF ErrorsInOrder, ErrorsOf
  <2>4. /\ DOMAIN lastError' = Threads /\ lastError' = [u \in Threads |-> lastError'[u]]
        /\ lastError'[t] = error
        /\ \A u \in Threads : u # t => lastError'[u] = lastError[u]
    BY <1>1, <2>3
  <2> QED
    BY <2>2, <2>4
<1>4. \A u \in Threads : \A k \in DOMAIN told[u] : told[u][k].n \in Nat
  <2> TAKE u \in Threads
  <2>1. told[u] \in Seq([of : Threads, n : Nat, bad : BOOLEAN])
    BY DEF ErrorsInOrder, ErrorsOf
  <2>2. \A X : \A list \in Seq(X) : \A k \in DOMAIN list : list[k] \in X
    OBVIOUS
  <2>3. \A k \in DOMAIN told[u] : told[u][k] \in [of : Threads, n : Nat, bad : BOOLEAN]
    BY <2>1, <2>2
  <2> QED
    BY <2>3
<1>5. ASSUME NEW u \in Threads
      PROVE  /\ lastError'[u] # None =>
                  /\ lastError'[u] \in [of : {u}, n : 1 .. errors'[u], bad : BOOLEAN]
                  /\ \A k \in DOMAIN told[u] : told[u][k].n < lastError'[u].n
             /\ \A k \in DOMAIN told[u] : told[u][k].of = u /\ told[u][k].n <= errors'[u]
  <2>1. CASE u = t
    <3>1. \A k \in DOMAIN told[t] : told[t][k].of = t /\ told[t][k].n <= errors[t]
      BY DEF ErrorsInOrder, ErrorsOf
    <3>2. \A k \in DOMAIN told[t] : told[t][k].n < errors[t] + 1 /\ told[t][k].n <= errors[t] + 1
      BY <1>1, <1>4, <3>1
    <3> QED
      BY <1>2, <1>3, <2>1, <3>1, <3>2
  <2>2. CASE u # t
    BY <1>3, <2>2 DEF ErrorsInOrder, ErrorsOf
  <2> QED
    BY <2>1, <2>2
<1>6. told' \in [Threads -> Seq([of : Threads, n : Nat, bad : BOOLEAN])]
      /\ \A u \in Threads : \A k \in DOMAIN told'[u] : \A j \in 1 .. (k - 1) : told'[u][j].n < told'[u][k].n
  <2>1. told \in [Threads -> Seq([of : Threads, n : Nat, bad : BOOLEAN])]
    BY DEF ErrorsInOrder
  <2>2. \A u \in Threads : \A k \in DOMAIN told[u] : \A j \in 1 .. (k - 1) : told[u][j].n < told[u][k].n
    BY DEF ErrorsInOrder, ErrorsOf
  <2> QED
    BY <1>1, <2>1, <2>2
<1>7. ASSUME NEW u \in Threads PROVE ErrorsOf(u)'
  BY <1>1, <1>5, <1>6 DEF ErrorsOf
<1> QED
  BY <1>3, <1>6, <1>7 DEF ErrorsInOrder

LEMMA GetKeeps ==
  ASSUME ErrorsInOrder, NEW t \in Threads, NEW room, GetErrorMessage(t, room)
  PROVE  ErrorsInOrder'
<1>1. CASE UNCHANGED errorVars
  BY <1>1, ErrorsStay
<1>2. CASE lastError' = [lastError EXCEPT ![t] = None] /\ errors' = errors /\ told' = told
  <2>1. /\ DOMAIN lastError' = Threads /\ lastError' = [u \in Threads |-> lastError'[u]]
        /\ lastError'[t] = None /\ \A u \in Threads : u # t => lastError'[u] = lastError[u]
    BY <1>2 DEF ErrorsInOrder, ErrorsOf
  <2> QED
    BY <1>2, <2>1 DEF ErrorsInOrder, ErrorsOf
<1>3. CASE /\ lastError' = [lastError EXCEPT ![t] = None] /\ errors' = errors
           /\ lastError[t] # None /\ told' = Tell(t, lastError[t])
  <2> DEFINE error == lastError[t]
             list == Append(told[t], error)
  <2>1. /\ DOMAIN lastError' = Threads /\ lastError' = [u \in Threads |-> lastError'[u]]
        /\ lastError'[t] = None /\ \A u \in Threads : u # t => lastError'[u] = lastError[u]
    BY <1>3 DEF ErrorsInOrder, ErrorsOf
  <2>2. /\ error \in [of : {t}, n : 1 .. errors[t], bad : BOOLEAN]
        /\ errors[t] \in Nat /\ told[t] \in Seq([of : Threads, n : Nat, bad : BOOLEAN])
        /\ \A k \in DOMAIN told[t] : told[t][k].n < error.n
    BY <1>3 DEF ErrorsInOrder, ErrorsOf
  <2>3. error \in [of : Threads, n : Nat, bad : BOOLEAN] /\ error.of = t /\ error.n <= errors[t]
    BY <2>2
  <2> HIDE DEF error
  <2>4. /\ list \in Seq([of : Threads, n : Nat, bad : BOOLEAN])
        /\ Len(list) = Len(told[t]) + 1 /\ list[Len(told[t]) + 1] = error
        /\ DOMAIN list = 1 .. Len(told[t]) + 1 /\ DOMAIN told[t] = 1 .. Len(told[t])
        /\ \A k \in 1 .. Len(told[t]) : list[k] = told[t][k]
        /\ Len(told[t]) \in Nat
    BY <2>2, <2>3
  <2> HIDE DEF list
  <2>5. /\ told' = [told EXCEPT ![t] = list]
        /\ told'[t] = list /\ \A u \in Threads : u # t => told'[u] = told[u]
        /\ told' \in [Threads -> Seq([of : Threads, n : Nat, bad : BOOLEAN])]
    BY <1>3, <2>4 DEF Tell, ErrorsInOrder, ErrorsOf, list, error
  <2>6. /\ \A k \in DOMAIN list : list[k].of = t /\ list[k].n <= errors[t]
        /\ \A k \in DOMAIN list : \A j \in 1 .. (k - 1) : list[j].n < list[k].n
    <3>1. ASSUME NEW k \in DOMAIN list
          PROVE  /\ list[k].of = t /\ list[k].n <= errors[t]
                 /\ \A j \in 1 .. (k - 1) : list[j].n < list[k].n
      <4>1. CASE k \in 1 .. Len(told[t])
        <5>1. \A j \in 1 .. (k - 1) : j \in 1 .. Len(told[t])
          BY <2>4, <4>1
        <5>2. /\ told[t][k].of = t /\ told[t][k].n <= errors[t]
              /\ \A j \in 1 .. (k - 1) : told[t][j].n < told[t][k].n
          BY <2>4, <4>1 DEF ErrorsInOrder, ErrorsOf
        <5>3. list[k] = told[t][k] /\ \A j \in 1 .. (k - 1) : list[j] = told[t][j]
          BY <2>4, <4>1, <5>1
        <5> QED
          BY <5>2, <5>3
      <4>2. CASE k = Len(told[t]) + 1
        <5>1. \A j \in 1 .. (k - 1) : j \in 1 .. Len(told[t])
          BY <2>4, <4>2
        <5> QED
          BY <2>2, <2>3, <2>4, <4>2, <5>1
      <4> QED
        BY <2>4, <4>1, <4>2
    <3> QED
      BY <3>1
  <2>7. ASSUME NEW u \in Threads
        PROVE  /\ lastError'[u] # None =>
                    /\ lastError'[u] \in [of : {u}, n : 1 .. errors[u], bad : BOOLEAN]
                    /\ \A k \in DOMAIN told'[u] : told'[u][k].n < lastError'[u].n
               /\ \A k \in DOMAIN told'[u] : told'[u][k].of = u /\ told'[u][k].n <= errors[u]
               /\ \A k \in DOMAIN told'[u] : \A j \in 1 .. (k - 1) : told'[u][j].n < told'[u][k].n
    <3>1. CASE u = t
      BY <2>1, <2>5, <2>6, <3>1
    <3>2. CASE u # t
      BY <2>1, <2>5, <3>2 DEF ErrorsInOrder, ErrorsOf
    <3> QED
      BY <3>1, <3>2
  <2>8. errors' = errors /\ errors \in [Threads -> Nat]
    BY <1>3 DEF ErrorsInOrder, ErrorsOf
  <2> QED
    <3>1. ASSUME NEW u \in Threads PROVE ErrorsOf(u)'
      BY <2>7, <2>8 DEF ErrorsOf
    <3> QED
      BY <2>1, <2>5, <2>8, <3>1 DEF ErrorsInOrder
<1>4. \/ UNCHANGED errorVars
      \/ lastError' = [lastError EXCEPT ![t] = None] /\ errors' = errors /\ told' = told
      \/ /\ lastError' = [lastError EXCEPT ![t] = None] /\ errors' = errors
         /\ lastError[t] # None /\ told' = Tell(t, lastError[t])
  BY DEF GetErrorMessage
<1> QED
  BY <1>1, <1>2, <1>3, <1>4

-----------------------------------------------------------------------------
(* The logger.                                                             *)

\* What is attached is a sink that can be used.
LEMMA AttachedIsUsable ==
  ASSUME NEW sink \in Specifiers, AttachStatus(sink) = 0
  PROVE  sink \in {"stdout", "buffer", "file"} /\ (sink = "file" => canOpen)
BY DEF AttachStatus, Specifiers

\* To apply a logger of usable sinks never ends the process.
LEMMA ApplyKeeps ==
  ASSUME LoggerInOrder, NEW t \in Threads, NEW sinks \in Seq(SinkSet), Apply(t, sinks),
         \A k \in DOMAIN sinks : sinks[k].sink = "file" => canOpen \/ vanished
  PROVE  LoggerInOrder'
<1>1. CASE CanWrite(sinks)
  <2>1. /\ logger' = [logger EXCEPT ![t] = <<>>] /\ canOpen' = canOpen /\ vanished' = vanished
        /\ alive' = alive
        /\ subscriber' = IF subscriber = None THEN Subscriber(sinks) ELSE subscriber
    BY <1>1 DEF Apply
  <2>2. Subscriber(sinks).sinks \in Seq(SinkSet)
    BY DEF Subscriber
  <2>3. <<>> \in Seq(SinkSet) /\ DOMAIN <<>> = {}
    OBVIOUS
  <2>4. /\ logger' \in [Threads -> Seq(SinkSet)] /\ DOMAIN logger'[t] = {}
        /\ \A u \in Threads : u # t => logger'[u] = logger[u]
    BY <2>1, <2>3 DEF LoggerInOrder
  <2>5. subscriber' # None => subscriber'.sinks \in Seq(SinkSet)
    BY <2>1, <2>2 DEF LoggerInOrder
  <2> QED
    BY <2>1, <2>4, <2>5 DEF LoggerInOrder
<1>2. CASE ~CanWrite(sinks)
  <2>1. UNCHANGED <<logger, subscriber, canOpen, vanished>>
    BY <1>2 DEF Apply
  <2>2. vanished
    BY <1>2 DEF CanWrite
  <2> QED
    BY <2>1, <2>2 DEF LoggerInOrder
<1> QED
  BY <1>1, <1>2

\* A logger that starts anew, or one that stays as it is.
LEMMA ResetKeeps ==
  ASSUME LoggerInOrder, NEW t \in Threads, logger' = [logger EXCEPT ![t] = <<>>],
         UNCHANGED <<subscriber, canOpen, vanished, alive>>
  PROVE  LoggerInOrder'
<1>1. <<>> \in Seq(SinkSet) /\ DOMAIN <<>> = {}
  OBVIOUS
<1>2. /\ logger' \in [Threads -> Seq(SinkSet)] /\ DOMAIN logger'[t] = {}
      /\ \A u \in Threads : u # t => logger'[u] = logger[u]
  BY <1>1 DEF LoggerInOrder
<1> QED
  BY <1>2 DEF LoggerInOrder

LEMMA AttachKeeps ==
  ASSUME LoggerInOrder, NEW t \in Threads, NEW sink \in Specifiers, NEW level \in Nat,
         AttachSink(t, sink, level)
  PROVE  LoggerInOrder'
<1>1. UNCHANGED <<subscriber, canOpen, vanished, alive>>
  BY DEF AttachSink
<1>2. CASE AttachStatus(sink) # 0
  <2>1. logger' = logger
    BY <1>2 DEF AttachSink
  <2> QED
    BY <1>1, <2>1 DEF LoggerInOrder
<1>3. CASE AttachStatus(sink) = 0
  <2> DEFINE record == [sink |-> sink, level |-> level]
             list == Append(logger[t], record)
  <2>1. sink \in {"stdout", "buffer", "file"} /\ (sink = "file" => canOpen)
    BY <1>3, AttachedIsUsable
  <2>2. record \in SinkSet /\ record.sink = sink
    BY <2>1 DEF SinkSet
  <2>3. logger[t] \in Seq(SinkSet)
    BY DEF LoggerInOrder
  <2> HIDE DEF record
  <2>4. /\ list \in Seq(SinkSet)
        /\ \A k \in DOMAIN list : list[k] = record \/ (k \in DOMAIN logger[t] /\ list[k] = logger[t][k])
    BY <2>2, <2>3
  <2>5. logger' = [logger EXCEPT ![t] = list]
    BY <1>3 DEF AttachSink, With, record
  <2> HIDE DEF list
  <2>6. /\ logger' \in [Threads -> Seq(SinkSet)] /\ logger'[t] = list
        /\ \A u \in Threads : u # t => logger'[u] = logger[u]
    BY <2>4, <2>5 DEF LoggerInOrder
  <2>7. \A u \in Threads : \A k \in DOMAIN logger'[u] :
          logger'[u][k].sink = "file" => canOpen \/ vanished
    <3> TAKE u \in Threads
    <3>1. CASE u = t
      <4>1. \A k \in DOMAIN logger[t] : logger[t][k].sink = "file" => canOpen \/ vanished
        BY DEF LoggerInOrder
      <4> QED
        BY <2>1, <2>2, <2>4, <2>6, <3>1, <4>1
    <3>2. CASE u # t
      BY <2>6, <3>2 DEF LoggerInOrder
    <3> QED
      BY <3>1, <3>2
  <2> QED
    BY <1>1, <2>6, <2>7 DEF LoggerInOrder
<1> QED
  BY <1>2, <1>3

LEMMA LogToKeeps ==
  ASSUME LoggerInOrder, NEW t \in Threads, NEW sink \in Specifiers, NEW level \in Nat,
         LogTo(t, sink, level)
  PROVE  LoggerInOrder'
<1>1. CASE AttachStatus(sink) = 0
  <2> DEFINE sinks == With(<<>>, sink, level)
  <2>1. sink \in {"stdout", "buffer", "file"} /\ (sink = "file" => canOpen)
    BY <1>1, AttachedIsUsable
  <2>2. sinks = <<[sink |-> sink, level |-> level]>> /\ [sink |-> sink, level |-> level] \in SinkSet
    BY <2>1 DEF With, SinkSet
  <2>3. sinks \in Seq(SinkSet) /\ \A k \in DOMAIN sinks : sinks[k].sink = sink
    <3>1. PICK r : r = [sink |-> sink, level |-> level]
      OBVIOUS
    <3>2. r \in SinkSet /\ r.sink = sink /\ sinks = <<r>>
      BY <2>2, <3>1
    <3>3. <<r>> \in Seq(SinkSet) /\ DOMAIN <<r>> = {1} /\ <<r>>[1] = r
      BY <3>2
    <3> QED
      BY <3>2, <3>3
  <2>4. Apply(t, sinks)
    BY <1>1 DEF LogTo
  <2> HIDE DEF sinks
  <2> QED
    BY <2>1, <2>3, <2>4, ApplyKeeps
<1>2. CASE AttachStatus(sink) # 0
  <2>1. logger' = [logger EXCEPT ![t] = <<>>] /\ UNCHANGED <<subscriber, canOpen, vanished, alive>>
    BY <1>2 DEF LogTo
  <2> QED
    BY <2>1, ResetKeeps
<1> QED
  BY <1>1, <1>2

\* Every call of the logger, and what happens to the log file.
LEMMA LoggerCallKeeps ==
  ASSUME LoggerInOrder, NEW t \in Threads, LoggerCall(t)
  PROVE  LoggerInOrder'
<1>1. \A level \in SinkLevels : level \in Nat
  BY FfiLogAssumption DEF SinkLevels
<1>2. CASE LoggerInit(t)
  BY <1>2, ResetKeeps DEF LoggerInit
<1>3. ASSUME NEW sink \in Specifiers, NEW level \in SinkLevels, AttachSink(t, sink, level)
      PROVE  LoggerInOrder'
  BY <1>1, <1>3, AttachKeeps
<1>4. CASE LoggerApply(t)
  <2>1. logger[t] \in Seq(SinkSet) /\ \A k \in DOMAIN logger[t] : logger[t][k].sink = "file" => canOpen \/ vanished
    BY DEF LoggerInOrder
  <2> QED
    BY <1>4, <2>1, ApplyKeeps DEF LoggerApply
<1>5. ASSUME NEW sink \in {"stdout", "buffer", "file", "other"}, NEW level \in SinkLevels, LogTo(t, sink, level)
      PROVE  LoggerInOrder'
  <2>1. sink \in Specifiers
    BY DEF Specifiers
  <2> QED
    BY <1>1, <1>5, <2>1, LogToKeeps
<1>6. ASSUME NEW name, LogToNoFile(t, name)
      PROVE  LoggerInOrder'
  BY <1>6, ResetKeeps DEF LogToNoFile
<1>7. ASSUME NEW level \in SinkLevels, InitWithLevel(t, level)
      PROVE  LoggerInOrder'
  <2>1. UNCHANGED <<logger, canOpen, vanished, alive>>
    BY <1>7 DEF InitWithLevel
  <2>2. subscriber' # None => subscriber'.sinks \in Seq(SinkSet)
    BY <1>7 DEF InitWithLevel, LoggerInOrder
  <2> QED
    BY <2>1, <2>2 DEF LoggerInOrder
<1> QED
  BY <1>2, <1>3, <1>4, <1>5, <1>6, <1>7 DEF LoggerCall

LEMMA FileKeeps ==
  ASSUME LoggerInOrder, FileChanges
  PROVE  LoggerInOrder'
<1>1. /\ canOpen' = ~canOpen /\ vanished' = (vanished \/ canOpen)
      /\ UNCHANGED <<alive, logger, subscriber>>
  BY DEF FileChanges
<1>2. canOpen' \in BOOLEAN /\ vanished' \in BOOLEAN
  BY <1>1, Zenon
<1>3. vanished => vanished'
  BY <1>1, Zenon
<1>4. canOpen \/ vanished => canOpen' \/ vanished'
  BY <1>1, Zenon
<1> QED
  BY <1>1, <1>2, <1>3, <1>4 DEF LoggerInOrder

-----------------------------------------------------------------------------
(* The texts.                                                              *)

\* The numbers of a list of texts.
LEMMA NumbersAre ==
  ASSUME NEW count \in Nat, NEW list \in Seq([n : 1 .. count, bad : BOOLEAN])
  PROVE  /\ Numbers(list) \in Seq(1 .. count) /\ Len(Numbers(list)) = Len(list)
         /\ DOMAIN Numbers(list) = DOMAIN list
         /\ \A k \in DOMAIN list : Numbers(list)[k] = list[k].n
<1>1. Len(list) \in Nat /\ DOMAIN list = 1 .. Len(list)
  OBVIOUS
<1>2. \A k \in 1 .. Len(list) : list[k].n \in 1 .. count
  <2> TAKE k \in 1 .. Len(list)
  <2>1. list[k] \in [n : 1 .. count, bad : BOOLEAN]
    BY ElementOfSeq
  <2> QED
    BY <2>1
<1>3. Numbers(list) = [k \in 1 .. Len(list) |-> list[k].n]
  BY <1>1 DEF Numbers
<1> QED
  BY <1>1, <1>2, <1>3

LEMMA ListOfThese ==
  ASSUME NEW X, NEW list \in Seq(X), NEW R, \A k \in 1 .. Len(list) : list[k] \in R
  PROVE  list \in Seq(R)
OBVIOUS

LEMMA ListOfItsItems ==
  ASSUME NEW X, NEW list \in Seq(X)
  PROVE  list \in Seq(ToSet(list))
<1>1. Len(list) \in Nat /\ DOMAIN list = 1 .. Len(list) /\ list = [k \in 1 .. Len(list) |-> list[k]]
  OBVIOUS
<1>2. \A k \in 1 .. Len(list) : list[k] \in ToSet(list)
  BY <1>1 DEF ToSet
<1> QED
  BY <1>1, <1>2

\* What is in a buffer or fetched from it was written to it, and is not lost.
LEMMA TextsWereWritten ==
  ASSUME NEW count, NEW held, NEW written, NEW fetched, NEW gone,
         TextsAre(count, held, written, fetched, gone), NEW id \in Ids
  PROVE  /\ \A k \in DOMAIN held[id] :
              held[id][k].n \in ToSet(written[id]) /\ held[id][k].n \notin gone
         /\ \A j \in DOMAIN fetched[id] :
              fetched[id][j] \in ToSet(written[id]) /\ fetched[id][j] \notin gone
<1> DEFINE list  == written[id]
           first == fetched[id]
           rest  == Numbers(held[id])
           kept  == Within(list, Nat \ gone)
<1>1. /\ list \in Seq(1 .. count) /\ first \in Seq(1 .. count) /\ count \in Nat
      /\ held[id] \in Seq([n : 1 .. count, bad : BOOLEAN])
      /\ kept = first \o rest
  BY DEF TextsAre
<1>2. list \in Seq(ToSet(list))
  BY <1>1, ListOfItsItems
<1>3. rest \in Seq(1 .. count) /\ DOMAIN rest = DOMAIN held[id]
      /\ \A k \in DOMAIN held[id] : rest[k] = held[id][k].n
  BY <1>1, NumbersAre
<1> HIDE DEF list, first, rest, kept
<1>4. PICK Z : Z = ToSet(list) \cap (Nat \ gone)
  OBVIOUS
<1>5. kept \in Seq(Z)
  BY <1>2, <1>4, WithinIsList DEF kept
<1>6. \A k \in DOMAIN rest : rest[k] \in Z
  <2> TAKE k \in DOMAIN rest
  <2>1. k \in 1 .. Len(rest) /\ Len(rest) \in Nat /\ Len(first) \in Nat
    BY <1>1, <1>3, LenProperties
  <2>2. Len(first) + k \in 1 .. Len(kept) /\ kept[Len(first) + k] = rest[k]
    <3>1. Len(kept) = Len(first) + Len(rest)
      BY <1>1, <1>3
    <3>2. Len(first) + k \in 1 .. Len(first) + Len(rest)
      BY <2>1
    <3>3. (first \o rest)[Len(first) + k] = rest[k]
      <4>1. PICK A : A = 1 .. count
        OBVIOUS
      <4>2. first \in Seq(A) /\ rest \in Seq(A)
        BY <1>1, <1>3, <4>1
      <4>3. (first \o rest)[Len(first) + k]
              = IF Len(first) + k <= Len(first) THEN first[Len(first) + k]
                                                ELSE rest[(Len(first) + k) - Len(first)]
        BY <3>2, <4>2, ConcatProperties
      <4>4. ~(Len(first) + k <= Len(first)) /\ (Len(first) + k) - Len(first) = k
        BY <2>1
      <4> QED
        BY <4>3, <4>4
    <3> QED
      BY <1>1, <3>1, <3>2, <3>3
  <2>3. kept[Len(first) + k] \in Z
    BY <1>5, <2>2
  <2> QED
    BY <2>2, <2>3
<1>7. \A j \in DOMAIN first : first[j] \in Z
  <2> TAKE j \in DOMAIN first
  <2>1. Len(kept) = Len(first) + Len(rest) /\ Len(rest) \in Nat /\ Len(first) \in Nat /\ j \in 1 .. Len(first)
    BY <1>1, <1>3
  <2>2. j \in 1 .. Len(kept)
    BY <2>1
  <2>3. kept[j] = first[j]
    BY <1>1, <1>3, <2>1
  <2> QED
    BY <1>5, <2>2, <2>3
<1> QED
  BY <1>3, <1>4, <1>6, <1>7 DEF list, first, rest

\* A text that is written is written at the end, and is not lost.
LEMMA WrittenIsKept ==
  ASSUME NEW count, NEW held, NEW written, NEW fetched, NEW gone,
         TextsAre(count, held, written, fetched, gone),
         NEW id \in Ids, NEW copies \in Nat, NEW bad \in BOOLEAN
  PROVE  TextsAre(count + 1,
                  [held EXCEPT ![id] = @ \o [k \in 1 .. copies |-> [n |-> count + 1, bad |-> bad]]],
                  [written EXCEPT ![id] = @ \o [k \in 1 .. copies |-> count + 1]],
                  fetched, gone)
<1> DEFINE text  == [n |-> count + 1, bad |-> bad]
           texts_ == [k \in 1 .. copies |-> text]
           nums  == [k \in 1 .. copies |-> count + 1]
           hold  == held[id] \o texts_
           write == written[id] \o nums
           held_ == [held EXCEPT ![id] = hold]
           written_ == [written EXCEPT ![id] = write]
<1>1. /\ count \in Nat /\ gone \subseteq 1 .. count
      /\ DOMAIN held = Ids /\ DOMAIN written = Ids /\ DOMAIN fetched = Ids
  BY DEF TextsAre
<1>2. \A i \in Ids : /\ held[i] \in Seq([n : 1 .. count, bad : BOOLEAN])
                     /\ written[i] \in Seq(1 .. count) /\ fetched[i] \in Seq(1 .. count)
                     /\ Within(written[i], Nat \ gone) = fetched[i] \o Numbers(held[i])
  BY DEF TextsAre
<1>3. 1 .. count \subseteq 1 .. count + 1 /\ count + 1 \in 1 .. count + 1 /\ count + 1 \in Nat /\ count + 1 \notin 1 .. count
  BY <1>1
<1>4. /\ text \in [n : 1 .. count + 1, bad : BOOLEAN] /\ text.n = count + 1
      /\ [n : 1 .. count, bad : BOOLEAN] \subseteq [n : 1 .. count + 1, bad : BOOLEAN]
  BY <1>3
<1> HIDE DEF text
<1>5. /\ texts_ \in Seq([n : 1 .. count + 1, bad : BOOLEAN]) /\ Len(texts_) = copies
      /\ \A k \in 1 .. copies : texts_[k] = text
  BY <1>4
<1>6. /\ nums \in Seq(1 .. count + 1) /\ nums \in Seq(Nat \ gone) /\ nums \in Seq(Nat) /\ Len(nums) = copies
      /\ \A k \in 1 .. copies : nums[k] = count + 1
  BY <1>1, <1>3
<1> HIDE DEF texts_, nums
<1>7. ASSUME NEW i \in Ids
      PROVE  /\ held[i] \in Seq([n : 1 .. count + 1, bad : BOOLEAN])
             /\ written[i] \in Seq(1 .. count + 1) /\ fetched[i] \in Seq(1 .. count + 1)
             /\ written[i] \in Seq(Nat)
  <2>1. /\ held[i] \in Seq([n : 1 .. count, bad : BOOLEAN])
        /\ written[i] \in Seq(1 .. count) /\ fetched[i] \in Seq(1 .. count)
    BY <1>2
  <2>2. 1 .. count \subseteq Nat
    BY <1>1
  <2>3. held[i] \in Seq([n : 1 .. count + 1, bad : BOOLEAN])
    <3>1. PICK A, B : A = [n : 1 .. count, bad : BOOLEAN] /\ B = [n : 1 .. count + 1, bad : BOOLEAN]
      OBVIOUS
    <3>2. A \subseteq B /\ held[i] \in Seq(A)
      BY <1>4, <2>1, <3>1
    <3> QED
      BY <3>1, <3>2, SeqMonotonic
  <2>4. written[i] \in Seq(1 .. count + 1) /\ fetched[i] \in Seq(1 .. count + 1)
    BY <1>3, <2>1, SeqMonotonic
  <2>5. written[i] \in Seq(Nat)
    BY <2>1, <2>2, SeqMonotonic
  <2> QED
    BY <2>3, <2>4, <2>5
<1>a. PICK list, wrote_, first, rest : /\ list = held[id] /\ wrote_ = written[id]
                                       /\ first = fetched[id] /\ rest = Numbers(held[id])
  OBVIOUS
<1>b. /\ list \in Seq([n : 1 .. count + 1, bad : BOOLEAN]) /\ wrote_ \in Seq(1 .. count + 1)
      /\ first \in Seq(1 .. count + 1) /\ wrote_ \in Seq(Nat)
      /\ list \in Seq([n : 1 .. count, bad : BOOLEAN])
  BY <1>2, <1>7, <1>a
<1>8. /\ hold \in Seq([n : 1 .. count + 1, bad : BOOLEAN])
      /\ Len(hold) = Len(list) + copies /\ Len(list) \in Nat
      /\ \A k \in 1 .. Len(list) : hold[k] = list[k]
      /\ \A k \in 1 .. copies : hold[Len(list) + k] = text
  <2>1. /\ list \o texts_ \in Seq([n : 1 .. count + 1, bad : BOOLEAN])
        /\ Len(list \o texts_) = Len(list) + copies /\ Len(list) \in Nat
    BY <1>5, <1>b, ConcatProperties, LenProperties
  <2>2. /\ \A k \in 1 .. Len(list) : (list \o texts_)[k] = list[k]
        /\ \A k \in 1 .. copies : (list \o texts_)[Len(list) + k] = texts_[k]
    BY <1>5, <1>b
  <2> QED
    BY <1>5, <1>a, <2>1, <2>2
<1>9. /\ write \in Seq(1 .. count + 1)
      /\ \A k \in DOMAIN write : \/ k \in DOMAIN wrote_ /\ write[k] = wrote_[k]
                                 \/ write[k] = count + 1
  <2>1. wrote_ \o nums \in Seq(1 .. count + 1)
    BY <1>6, <1>b
  <2>2. \A k \in DOMAIN (wrote_ \o nums) :
          \/ k \in DOMAIN wrote_ /\ (wrote_ \o nums)[k] = wrote_[k]
          \/ k - Len(wrote_) \in 1 .. copies /\ (wrote_ \o nums)[k] = nums[k - Len(wrote_)]
    <3>1. Len(nums) = copies /\ nums \in Seq(Nat) /\ wrote_ \in Seq(Nat) /\ copies \in Nat
      BY <1>6, <1>b
    <3> QED
      BY <3>1
  <2> QED
    BY <1>6, <1>a, <2>1, <2>2
<1>10. Within(write, Nat \ gone) = fetched[id] \o Numbers(hold)
  <2>1. Within(write, Nat \ gone) = Within(wrote_, Nat \ gone) \o Within(nums, Nat \ gone)
    <3>1. PICK Z : Z = Nat \ gone
      OBVIOUS
    <3>2. wrote_ \in Seq(Nat) /\ nums \in Seq(Nat)
      BY <1>6, <1>b
    <3>3. Within(wrote_ \o nums, Z) = Within(wrote_, Z) \o Within(nums, Z)
      BY <3>2, WithinConcat
    <3>4. write = wrote_ \o nums
      BY <1>a
    <3> QED
      BY <3>1, <3>3, <3>4
  <2>2. Within(nums, Nat \ gone) = nums
    BY <1>6, WithinAll
  <2>3. rest \in Seq(1 .. count) /\ Len(rest) = Len(list) /\ \A k \in DOMAIN list : rest[k] = list[k].n
    BY <1>1, <1>a, <1>b, NumbersAre
  <2>4. PICK more : more = Numbers(hold)
    OBVIOUS
  <2>5. more \in Seq(1 .. count + 1) /\ Len(more) = Len(hold)
        /\ \A k \in DOMAIN hold : more[k] = hold[k].n
    BY <1>3, <1>8, <2>4, NumbersAre
  <2>6. rest \in Seq(1 .. count + 1) /\ DOMAIN list = 1 .. Len(list) /\ DOMAIN hold = 1 .. Len(hold)
    <3>1. rest \in Seq(1 .. count + 1)
      BY <1>3, <2>3, SeqMonotonic
    <3> QED
      BY <1>8, <1>b, <3>1, LenProperties
  <2> HIDE DEF hold
  <2>7. Len(rest \o nums) = Len(more) /\ rest \o nums \in Seq(1 .. count + 1)
    <3>1. Len(rest \o nums) = Len(rest) + Len(nums) /\ rest \o nums \in Seq(1 .. count + 1)
      <4>1. PICK A : A = 1 .. count + 1
        OBVIOUS
      <4>2. rest \in Seq(A) /\ nums \in Seq(A)
        BY <1>6, <2>6, <4>1
      <4> QED
        BY <4>1, <4>2, ConcatProperties
    <3> QED
      BY <1>6, <1>8, <2>3, <2>5, <3>1
  <2>8. ASSUME NEW k \in 1 .. Len(more) PROVE more[k] = (rest \o nums)[k]
    <3>1. (rest \o nums)[k] = IF k <= Len(rest) THEN rest[k] ELSE nums[k - Len(rest)]
      <4>1. k \in 1 .. Len(rest) + Len(nums)
        BY <1>6, <1>8, <2>3, <2>5
      <4> QED
        BY <1>6, <2>6, <4>1, ConcatProperties
    <3>2. CASE k <= Len(rest)
      <4>1. k \in 1 .. Len(list)
        BY <1>8, <2>3, <3>2
      <4> QED
        BY <1>8, <2>3, <2>5, <2>6, <3>1, <3>2, <4>1
    <3>3. CASE ~(k <= Len(rest))
      <4>1. k - Len(list) \in 1 .. copies /\ Len(list) + (k - Len(list)) = k /\ k - Len(list) = k - Len(rest)
        BY <1>8, <2>3, <2>5, <3>3
      <4>2. hold[k] = text /\ nums[k - Len(list)] = count + 1
        BY <1>6, <1>8, <4>1
      <4> QED
        BY <1>4, <2>5, <2>6, <3>1, <3>3, <4>1, <4>2
    <3> QED
      BY <3>2, <3>3
  <2>9. more = rest \o nums
    BY <2>5, <2>7, <2>8, SeqEqual
  <2>10. (first \o rest) \o nums = first \o (rest \o nums)
    <3>1. first \in Seq(1 .. count + 1) /\ rest \in Seq(1 .. count + 1) /\ nums \in Seq(1 .. count + 1)
      BY <1>6, <1>b, <2>6
    <3> QED
      BY <3>1
  <2>11. Within(wrote_, Nat \ gone) = first \o rest
    BY <1>2, <1>a
  <2> QED
    BY <1>a, <2>1, <2>2, <2>4, <2>9, <2>10, <2>11
<1>11. /\ DOMAIN held_ = Ids /\ DOMAIN written_ = Ids
       /\ held_[id] = hold /\ written_[id] = write
       /\ \A i \in Ids : i # id => held_[i] = held[i] /\ written_[i] = written[i]
  BY <1>1
<1> HIDE DEF hold, write, held_, written_
<1>12. ASSUME NEW i \in Ids, NEW j \in DOMAIN fetched[i], NEW k \in DOMAIN held_[i]
       PROVE  fetched[i][j] # held_[i][k].n
  <2>1. fetched[i][j] \in 1 .. count
    BY <1>2, ElementOfSeq, LenProperties
  <2>2. CASE i # id
    <3>1. held_[i] = held[i]
      BY <1>11, <2>2
    <3>2. \A m \in DOMAIN fetched[i], n \in DOMAIN held[i] : fetched[i][m] # held[i][n].n
      BY DEF TextsAre
    <3> QED
      BY <3>1, <3>2
  <2>3. CASE i = id /\ k \in 1 .. Len(list)
    <3>1. k \in DOMAIN held[id] /\ hold[k] = held[id][k]
      BY <1>8, <1>a, <1>b, <2>3, LenProperties
    <3>2. \A m \in DOMAIN fetched[id], n \in DOMAIN held[id] : fetched[id][m] # held[id][n].n
      BY DEF TextsAre
    <3>3. j \in DOMAIN fetched[id] /\ fetched[id][j] # held[id][k].n
      BY <2>3, <3>1, <3>2
    <3> QED
      BY <1>11, <2>3, <3>1, <3>3
  <2>4. CASE i = id /\ k \notin 1 .. Len(list)
    <3>1. k \in 1 .. Len(list) + copies
      BY <1>8, <1>11, <2>4, LenProperties
    <3>2. k - Len(list) \in 1 .. copies /\ Len(list) + (k - Len(list)) = k
      BY <1>8, <2>4, <3>1
    <3>3. hold[k] = text
      BY <1>8, <3>2
    <3> QED
      BY <1>3, <1>4, <1>11, <2>1, <2>4, <3>3
  <2> QED
    BY <2>2, <2>3, <2>4
<1>13. ASSUME NEW i \in Ids, NEW k \in DOMAIN written_[i]
       PROVE  \/ k \in DOMAIN written[i] /\ written_[i][k] = written[i][k] /\ written_[i][k] \in 1 .. count
              \/ i = id /\ written_[i][k] = count + 1
  <2>1. CASE i # id
    <3>1. k \in DOMAIN written[i] /\ written_[i][k] = written[i][k]
      BY <1>11, <2>1
    <3>2. written[i][k] \in 1 .. count
      BY <1>2, <3>1, ElementOfSeq, LenProperties
    <3> QED
      BY <3>1, <3>2
  <2>2. CASE i = id /\ k \in DOMAIN wrote_ /\ write[k] = wrote_[k]
    <3>1. k \in DOMAIN written[i] /\ written_[i][k] = written[i][k]
      BY <1>11, <1>a, <2>2
    <3>2. written[i][k] \in 1 .. count
      BY <1>2, <3>1, ElementOfSeq, LenProperties
    <3> QED
      BY <3>1, <3>2
  <2>3. CASE i = id /\ write[k] = count + 1
    BY <1>11, <2>3
  <2> QED
    BY <1>9, <1>11, <2>1, <2>2, <2>3
<1>14. ASSUME NEW i \in Ids, NEW other \in Ids, NEW j \in DOMAIN written_[i], NEW k \in DOMAIN written_[other],
              written_[i][j] = written_[other][k]
       PROVE  i = other
  <2>1. CASE j \in DOMAIN written[i] /\ written_[i][j] = written[i][j] /\ written_[i][j] \in 1 .. count
    <3>1. k \in DOMAIN written[other] /\ written_[other][k] = written[other][k]
      BY <1>3, <1>13, <1>14, <2>1
    <3>2. written[i][j] = written[other][k]
      BY <1>14, <2>1, <3>1
    <3> QED
      BY <2>1, <3>1, <3>2 DEF TextsAre
  <2>2. CASE i = id /\ written_[i][j] = count + 1
    <3>1. written_[other][k] \notin 1 .. count
      BY <1>3, <1>14, <2>2
    <3> QED
      BY <1>13, <2>2, <3>1
  <2> QED
    BY <1>13, <2>1, <2>2
<1>15. ASSUME NEW i \in Ids
       PROVE  /\ held_[i] \in Seq([n : 1 .. count + 1, bad : BOOLEAN])
              /\ written_[i] \in Seq(1 .. count + 1)
              /\ Within(written_[i], Nat \ gone) = fetched[i] \o Numbers(held_[i])
  <2>1. CASE i = id
    BY <1>8, <1>9, <1>10, <1>11, <2>1
  <2>2. CASE i # id
    BY <1>2, <1>7, <1>11, <2>2
  <2> QED
    BY <2>1, <2>2
<1>16. gone \subseteq 1 .. count + 1
  BY <1>1, <1>3
<1>17. TextsAre(count + 1, held_, written_, fetched, gone)
  BY <1>1, <1>3, <1>7, <1>11, <1>12, <1>14, <1>15, <1>16 DEF TextsAre
<1> QED
  BY <1>17 DEF held_, written_, hold, write, texts_, nums, text


\* A text that is fetched is fetched once.
LEMMA FetchedIsKept ==
  ASSUME NEW count, NEW held, NEW written, NEW fetched, NEW gone,
         TextsAre(count, held, written, fetched, gone), NEW id \in Ids
  PROVE  TextsAre(count, [held EXCEPT ![id] = <<>>], written,
                  [fetched EXCEPT ![id] = @ \o Numbers(held[id])], gone)
<1> DEFINE held_ == [held EXCEPT ![id] = <<>>]
           fetched_ == [fetched EXCEPT ![id] = @ \o Numbers(held[id])]
<1>1. /\ count \in Nat /\ gone \subseteq 1 .. count
      /\ DOMAIN held = Ids /\ DOMAIN written = Ids /\ DOMAIN fetched = Ids
  BY DEF TextsAre
<1>2. \A i \in Ids : /\ held[i] \in Seq([n : 1 .. count, bad : BOOLEAN])
                     /\ written[i] \in Seq(1 .. count) /\ fetched[i] \in Seq(1 .. count)
                     /\ Within(written[i], Nat \ gone) = fetched[i] \o Numbers(held[i])
  BY DEF TextsAre
<1>3. PICK first, rest : first = fetched[id] /\ rest = Numbers(held[id])
  OBVIOUS
<1>4. first \in Seq(1 .. count) /\ rest \in Seq(1 .. count)
  BY <1>1, <1>2, <1>3, NumbersAre
<1>5. first \o rest \in Seq(1 .. count)
  BY <1>4, ConcatProperties
<1>6. /\ DOMAIN held_ = Ids /\ DOMAIN fetched_ = Ids
      /\ held_[id] = <<>> /\ fetched_[id] = first \o rest
      /\ \A i \in Ids : i # id => held_[i] = held[i] /\ fetched_[i] = fetched[i]
  BY <1>1, <1>3
<1>7. /\ Numbers(<<>>) = <<>> /\ DOMAIN <<>> = {}
      /\ <<>> \in Seq([n : 1 .. count, bad : BOOLEAN])
  BY DEF Numbers
<1>8. (first \o rest) \o <<>> = first \o rest
  BY <1>4
<1> HIDE DEF held_, fetched_
<1>9. ASSUME NEW i \in Ids
      PROVE  /\ held_[i] \in Seq([n : 1 .. count, bad : BOOLEAN])
             /\ written[i] \in Seq(1 .. count) /\ fetched_[i] \in Seq(1 .. count)
             /\ \A j \in DOMAIN fetched_[i], k \in DOMAIN held_[i] : fetched_[i][j] # held_[i][k].n
             /\ Within(written[i], Nat \ gone) = fetched_[i] \o Numbers(held_[i])
  <2>1. CASE i = id
    <3>1. Within(written[i], Nat \ gone) = first \o rest
      BY <1>2, <1>3, <2>1
    <3>2. fetched_[i] \o Numbers(held_[i]) = (first \o rest) \o <<>>
      BY <1>6, <1>7, <2>1
    <3>3. Within(written[i], Nat \ gone) = fetched_[i] \o Numbers(held_[i])
      BY <1>8, <3>1, <3>2
    <3>4. /\ held_[i] \in Seq([n : 1 .. count, bad : BOOLEAN]) /\ DOMAIN held_[i] = {}
          /\ fetched_[i] \in Seq(1 .. count)
      BY <1>5, <1>6, <1>7, <2>1
    <3>5. written[i] \in Seq(1 .. count)
      BY <1>2
    <3> QED
      BY <3>3, <3>4, <3>5
  <2>2. CASE i # id
    <3>1. held_[i] = held[i] /\ fetched_[i] = fetched[i]
      BY <1>6, <2>2
    <3>2. \A j \in DOMAIN fetched[i], k \in DOMAIN held[i] : fetched[i][j] # held[i][k].n
      BY DEF TextsAre
    <3> QED
      BY <1>2, <3>1, <3>2
  <2> QED
    BY <2>1, <2>2
<1>10. ASSUME NEW i \in Ids, NEW other \in Ids, NEW j \in DOMAIN written[i], NEW k \in DOMAIN written[other],
              written[i][j] = written[other][k]
       PROVE  i = other
  BY <1>10 DEF TextsAre
<1>11. TextsAre(count, held_, written, fetched_, gone)
  BY <1>1, <1>6, <1>9, <1>10 DEF TextsAre
<1> QED
  BY <1>11 DEF held_, fetched_

\* Texts that a fetch cannot hand over are lost from that buffer and no other.
LEMMA LostIsKept ==
  ASSUME NEW count, NEW held, NEW written, NEW fetched, NEW gone,
         TextsAre(count, held, written, fetched, gone), NEW id \in Ids
  PROVE  TextsAre(count, [held EXCEPT ![id] = <<>>], written, fetched,
                  gone \cup ToSet(Numbers(held[id])))
<1> DEFINE held_ == [held EXCEPT ![id] = <<>>]
           now   == ToSet(Numbers(held[id]))
<1>1. /\ count \in Nat /\ gone \subseteq 1 .. count
      /\ DOMAIN held = Ids /\ DOMAIN written = Ids /\ DOMAIN fetched = Ids
  BY DEF TextsAre
<1>2. \A i \in Ids : /\ held[i] \in Seq([n : 1 .. count, bad : BOOLEAN])
                     /\ written[i] \in Seq(1 .. count) /\ fetched[i] \in Seq(1 .. count)
                     /\ Within(written[i], Nat \ gone) = fetched[i] \o Numbers(held[i])
  BY DEF TextsAre
<1>3. ASSUME NEW i \in Ids
      PROVE  /\ Numbers(held[i]) \in Seq(1 .. count) /\ DOMAIN Numbers(held[i]) = DOMAIN held[i]
             /\ \A k \in DOMAIN held[i] : Numbers(held[i])[k] = held[i][k].n
  BY <1>1, <1>2, NumbersAre
<1>4. now = {held[id][k].n : k \in DOMAIN held[id]} /\ now \subseteq 1 .. count
  <2>1. now = {Numbers(held[id])[k] : k \in DOMAIN Numbers(held[id])}
    BY DEF ToSet
  <2>2. \A k \in DOMAIN Numbers(held[id]) : Numbers(held[id])[k] \in 1 .. count
    BY <1>3, ElementOfSeq, LenProperties
  <2> QED
    BY <1>3, <2>1, <2>2
<1>5. /\ DOMAIN held_ = Ids /\ held_[id] = <<>>
      /\ \A i \in Ids : i # id => held_[i] = held[i]
  BY <1>1
<1>6. /\ Numbers(<<>>) = <<>> /\ DOMAIN <<>> = {}
      /\ <<>> \in Seq([n : 1 .. count, bad : BOOLEAN])
  BY DEF Numbers
<1> HIDE DEF held_, now
<1>7. now \subseteq ToSet(written[id]) /\ \A j \in DOMAIN fetched[id] : fetched[id][j] \notin now
  <2>1. \A k \in DOMAIN held[id] : held[id][k].n \in ToSet(written[id])
    BY TextsWereWritten
  <2>2. \A j \in DOMAIN fetched[id], k \in DOMAIN held[id] : fetched[id][j] # held[id][k].n
    BY DEF TextsAre
  <2> QED
    BY <1>4, <2>1, <2>2
<1>8. PICK Z, R : Z = Nat \ gone /\ R = Nat \ now
  OBVIOUS
<1>9. Nat \ (gone \cup now) = Z \cap R
  BY <1>8
<1>10. ASSUME NEW i \in Ids
       PROVE  Within(written[i], Nat \ (gone \cup now)) = fetched[i] \o Numbers(held_[i])
  <2>1. PICK list, first, rest : list = written[i] /\ first = fetched[i] /\ rest = Numbers(held[i])
    OBVIOUS
  <2>2. /\ list \in Seq(1 .. count) /\ first \in Seq(1 .. count) /\ rest \in Seq(1 .. count)
        /\ Within(list, Z) = first \o rest
    BY <1>2, <1>3, <1>8, <2>1
  <2>3. Within(list, Nat \ (gone \cup now)) = Within(first \o rest, R)
    <3>1. Within(list, Z \cap R) = Within(Within(list, Z), R)
      <4>1. PICK X : list \in Seq(X)
        BY <2>2
      <4> QED
        BY <4>1, WithinTwice
    <3> QED
      BY <1>9, <2>2, <3>1
  <2>4. Within(first \o rest, R) = Within(first, R) \o Within(rest, R)
    <3>1. PICK A : first \in Seq(A) /\ rest \in Seq(A)
      BY <2>2
    <3> QED
      BY <3>1, WithinConcat
  <2>5. ASSUME \A j \in DOMAIN first : first[j] \notin now PROVE Within(first, R) = first
    <3>1. \A j \in 1 .. Len(first) : first[j] \in R
      BY <1>1, <1>8, <2>2, <2>5, ElementOfSeq, LenProperties
    <3>2. first \in Seq(R)
      BY <2>2, <3>1, ListOfThese
    <3> QED
      BY <3>2, WithinAll
  <2>6. CASE i = id
    <3>1. \A j \in DOMAIN first : first[j] \notin now
      BY <1>7, <2>1, <2>6
    <3>2. now = ToSet(rest)
      BY <2>1, <2>6 DEF now
    <3>3. rest \in Seq(now)
      BY <2>2, <3>2, ListOfItsItems
    <3>4. R \cap now = {}
      BY <1>8
    <3>5. Within(rest, R) = <<>>
      BY <3>3, <3>4, WithinNone
    <3>6. first \o <<>> = first
      BY <2>2
    <3>7. Numbers(held_[i]) = <<>>
      BY <1>5, <1>6, <2>6
    <3>8. Within(first, R) = first
      BY <2>5, <3>1
    <3> QED
      BY <2>1, <2>3, <2>4, <3>5, <3>7, <3>8
  <2>7. CASE i # id
    <3>1. ToSet(list) \cap ToSet(written[id]) = {}
      <4>1. \A j \in DOMAIN written[i], k \in DOMAIN written[id] : written[i][j] # written[id][k]
        BY <2>7 DEF TextsAre
      <4> QED
        BY <2>1, <4>1 DEF ToSet
    <3>2. /\ \A k \in DOMAIN held[i] : held[i][k].n \in ToSet(written[i])
          /\ \A j \in DOMAIN fetched[i] : fetched[i][j] \in ToSet(written[i])
      BY TextsWereWritten
    <3>3. /\ \A j \in DOMAIN first : first[j] \notin now
          /\ \A k \in DOMAIN rest : rest[k] \notin now
      BY <1>3, <1>7, <2>1, <3>1, <3>2
    <3>4. Within(first, R) = first
      BY <2>5, <3>3
    <3>5. \A k \in 1 .. Len(rest) : rest[k] \in R
      BY <1>1, <1>8, <2>2, <3>3, ElementOfSeq, LenProperties
    <3>6. rest \in Seq(R)
      BY <2>2, <3>5, ListOfThese
    <3>7. Within(rest, R) = rest
      BY <3>6, WithinAll
    <3>8. Numbers(held_[i]) = rest
      BY <1>5, <2>1, <2>7
    <3> QED
      BY <2>1, <2>3, <2>4, <3>4, <3>7, <3>8
  <2> QED
    BY <2>6, <2>7
<1>11. ASSUME NEW i \in Ids
       PROVE  /\ held_[i] \in Seq([n : 1 .. count, bad : BOOLEAN])
              /\ written[i] \in Seq(1 .. count) /\ fetched[i] \in Seq(1 .. count)
              /\ \A j \in DOMAIN fetched[i], k \in DOMAIN held_[i] : fetched[i][j] # held_[i][k].n
  <2>1. CASE i = id
    BY <1>2, <1>5, <1>6, <2>1
  <2>2. CASE i # id
    <3>1. held_[i] = held[i]
      BY <1>5, <2>2
    <3>2. \A j \in DOMAIN fetched[i], k \in DOMAIN held[i] : fetched[i][j] # held[i][k].n
      BY DEF TextsAre
    <3> QED
      BY <1>2, <3>1, <3>2
  <2> QED
    BY <2>1, <2>2
<1>12. ASSUME NEW i \in Ids, NEW other \in Ids, NEW j \in DOMAIN written[i], NEW k \in DOMAIN written[other],
              written[i][j] = written[other][k]
       PROVE  i = other
  BY <1>12 DEF TextsAre
<1>13. gone \cup now \subseteq 1 .. count
  BY <1>1, <1>4
<1>14. TextsAre(count, held_, written, fetched, gone \cup now)
  BY <1>1, <1>5, <1>10, <1>11, <1>12, <1>13 DEF TextsAre
<1> QED
  BY <1>14 DEF held_, now

\* As many copies as there are buffer sinks for the level.
LEMMA CopiesAre ==
  ASSUME LoggerInOrder, NEW level
  PROVE  Copies(level) \in Nat
<1>1. CASE subscriber = None
  BY <1>1 DEF Copies
<1>2. CASE subscriber # None
  <2> DEFINE all == DOMAIN subscriber.sinks
             some == {k \in all : /\ subscriber.sinks[k].sink = "buffer"
                                  /\ level <= subscriber.sinks[k].level
                                  /\ level <= subscriber.level}
  <2>1. Len(subscriber.sinks) \in Nat /\ all = 1 .. Len(subscriber.sinks)
    BY <1>2 DEF LoggerInOrder
  <2>2. IsFiniteSet(all)
    BY <2>1, FS_Interval
  <2>3. some \subseteq all
    OBVIOUS
  <2> HIDE DEF all, some
  <2>4. Cardinality(some) \in Nat
    BY <2>2, <2>3, FS_Subset, FS_CardinalityType
  <2> QED
    BY <1>2, <2>4 DEF Copies, some, all
<1> QED
  BY <1>1, <1>2

\* What each call does to the texts.
LEMMA LoggedIsKept ==
  ASSUME LoggerInOrder, TextsInOrder, NEW id \in Ids, NEW level, NEW bad \in BOOLEAN,
         Logged(buffer, id, level, bad), UNCHANGED <<delivered, lost>>
  PROVE  TextsInOrder'
<1> DEFINE copies == Copies(level)
<1>1. copies \in Nat
  BY CopiesAre
<1>2. TextsAre(texts, buffer, wrote, delivered, lost)
  BY DEF TextsInOrder
<1>3. /\ texts' = texts + 1 /\ delivered' = delivered /\ lost' = lost
      /\ buffer' = [buffer EXCEPT ![id] = @ \o [k \in 1 .. copies |-> [n |-> texts + 1, bad |-> bad]]]
      /\ wrote' = [wrote EXCEPT ![id] = @ \o [k \in 1 .. copies |-> texts + 1]]
  BY DEF Logged, Write
<1> HIDE DEF copies
<1>4. TextsAre(texts + 1,
               [buffer EXCEPT ![id] = @ \o [k \in 1 .. copies |-> [n |-> texts + 1, bad |-> bad]]],
               [wrote EXCEPT ![id] = @ \o [k \in 1 .. copies |-> texts + 1]],
               delivered, lost)
  BY <1>1, <1>2, WrittenIsKept
<1>5. TextsAre(texts', buffer', wrote', delivered', lost')
  BY <1>3, <1>4
<1> QED
  BY <1>5 DEF TextsInOrder

LEMMA DeliveredIsKept ==
  ASSUME TextsInOrder, NEW id \in Ids, Delivered(id)
  PROVE  TextsInOrder'
<1>1. TextsAre(texts, buffer, wrote, delivered, lost)
  BY DEF TextsInOrder
<1>2. TextsAre(texts, [buffer EXCEPT ![id] = <<>>], wrote,
               [delivered EXCEPT ![id] = @ \o Numbers(buffer[id])], lost)
  BY <1>1, FetchedIsKept
<1>3. /\ texts' = texts /\ wrote' = wrote /\ lost' = lost
      /\ buffer' = [buffer EXCEPT ![id] = <<>>]
      /\ delivered' = [delivered EXCEPT ![id] = @ \o Numbers(buffer[id])]
  BY DEF Delivered, Emptied
<1>4. TextsAre(texts', buffer', wrote', delivered', lost')
  BY <1>2, <1>3
<1> QED
  BY <1>4 DEF TextsInOrder

LEMMA FetchKeeps ==
  ASSUME LoggerInOrder, TextsInOrder, NEW t \in Threads, NEW id \in Ids, FetchLogBuffer(t, id)
  PROVE  TextsInOrder'
<1>1. CASE Delivered(id)
  BY <1>1, DeliveredIsKept
<1>2. CASE Lost(id) /\ Logged(Emptied(id), "global", 1, FALSE)
  <2> DEFINE copies == Copies(1)
             held == [buffer EXCEPT ![id] = <<>>]
             gone == lost \cup ToSet(Numbers(buffer[id]))
  <2>1. copies \in Nat
    BY CopiesAre
  <2>2. TextsAre(texts, buffer, wrote, delivered, lost)
    BY DEF TextsInOrder
  <2>3. TextsAre(texts, held, wrote, delivered, gone)
    BY <2>2, LostIsKept
  <2>4. /\ texts' = texts + 1 /\ delivered' = delivered /\ lost' = gone
        /\ buffer' = [held EXCEPT !["global"] = @ \o [k \in 1 .. copies |-> [n |-> texts + 1, bad |-> FALSE]]]
        /\ wrote' = [wrote EXCEPT !["global"] = @ \o [k \in 1 .. copies |-> texts + 1]]
    BY <1>2 DEF Lost, Logged, Write, Emptied
  <2> HIDE DEF copies, held, gone
  <2>5. "global" \in Ids
    BY DEF Ids
  <2>6. TextsAre(texts + 1,
                 [held EXCEPT !["global"] = @ \o [k \in 1 .. copies |-> [n |-> texts + 1, bad |-> FALSE]]],
                 [wrote EXCEPT !["global"] = @ \o [k \in 1 .. copies |-> texts + 1]],
                 delivered, gone)
    BY <2>1, <2>3, <2>5, WrittenIsKept
  <2>7. TextsAre(texts', buffer', wrote', delivered', lost')
    BY <2>4, <2>6
  <2> QED
    BY <2>7 DEF TextsInOrder
<1> QED
  BY <1>1, <1>2 DEF FetchLogBuffer

LEMMA ExtractKeeps ==
  ASSUME TextsInOrder, NEW t \in Threads, NEW id \in Ids, ExtractVerifierLogs(t, id)
  PROVE  TextsInOrder'
<1>1. CASE Delivered(id)
  BY <1>1, DeliveredIsKept
<1>2. CASE Lost(id) /\ buffer' = Emptied(id) /\ UNCHANGED <<texts, wrote>>
  <2>1. TextsAre(texts, buffer, wrote, delivered, lost)
    BY DEF TextsInOrder
  <2>2. TextsAre(texts, [buffer EXCEPT ![id] = <<>>], wrote, delivered,
                 lost \cup ToSet(Numbers(buffer[id])))
    BY <2>1, LostIsKept
  <2>3. /\ texts' = texts /\ wrote' = wrote /\ delivered' = delivered
        /\ buffer' = [buffer EXCEPT ![id] = <<>>]
        /\ lost' = lost \cup ToSet(Numbers(buffer[id]))
    BY <1>2 DEF Lost, Emptied
  <2>4. TextsAre(texts', buffer', wrote', delivered', lost')
    BY <2>2, <2>3
  <2> QED
    BY <2>4 DEF TextsInOrder
<1> QED
  BY <1>1, <1>2 DEF ExtractVerifierLogs

-----------------------------------------------------------------------------
(* What a handle reports.                                                  *)

LEMMA DoneAre ==
  ASSUME NEW X, NEW ended \in Seq(X)
  PROVE  Done(ended) \subseteq 1 .. Len(ended) /\ Len(ended) \in Nat
BY DEF Done

\* The last of the runs that could be carried out is where one expects it.
LEMMA LastDoneIs ==
  ASSUME NEW X, NEW ended \in Seq(X)
  PROVE  /\ LastDone(ended) \in Done(ended) \cup {0}
         /\ \A j \in Done(ended) : j <= LastDone(ended)
         /\ \A x \in Done(ended) \cup {0} : (\A j \in Done(ended) : j <= x) => x = LastDone(ended)
<1>1. Done(ended) \subseteq 1 .. Len(ended) /\ Len(ended) \in Nat
  BY DoneAre
<1>2. \E x \in Done(ended) \cup {0} : \A j \in Done(ended) : j <= x
  <2>1. CASE Done(ended) = {}
    BY <2>1
  <2>2. CASE Done(ended) # {}
    <3> DEFINE T == {Len(ended) - k : k \in Done(ended)}
    <3>1. T \subseteq Nat /\ T # {}
      BY <1>1, <2>2
    <3>2. PICK y \in T : \A z \in T : y <= z
      <4> HIDE DEF T
      <4> QED
        BY <3>1, LeastNatural
    <3>3. PICK x \in Done(ended) : y = Len(ended) - x
      BY <3>2
    <3>4. \A j \in Done(ended) : Len(ended) - x <= Len(ended) - j
      BY <3>2, <3>3
    <3>5. \A j \in Done(ended) : j <= x
      BY <1>1, <3>3, <3>4
    <3> QED
      BY <3>3, <3>5
  <2> QED
    BY <2>1, <2>2
<1>3. LastDone(ended) \in Done(ended) \cup {0} /\ \A j \in Done(ended) : j <= LastDone(ended)
  BY <1>2 DEF LastDone
<1>4. \A x, y \in Done(ended) \cup {0} :
        (\A j \in Done(ended) : j <= x) /\ (\A j \in Done(ended) : j <= y) => x = y
  BY <1>1
<1> QED
  BY <1>3, <1>4

\* Where the report begins.
From(ended) == IF LastDone(ended) = 0 THEN 1 ELSE LastDone(ended)

LEMMA FromIs ==
  ASSUME NEW X, NEW ended \in Seq(X)
  PROVE  /\ From(ended) \in 1 .. Len(ended) + 1 /\ Len(ended) \in Nat
         /\ Shown(ended) = Within(SubSeq(ended, From(ended), Len(ended)), HasALine)
<1>1. LastDone(ended) \in 0 .. Len(ended) /\ Len(ended) \in Nat
  BY DoneAre, LastDoneIs
<1>2. From(ended) \in 1 .. Len(ended) + 1
  BY <1>1 DEF From
<1> QED
  BY <1>1, <1>2 DEF From, Shown

LEMMA ListOfOne ==
  ASSUME NEW X, NEW list \in Seq(X), Len(list) = 1, NEW x, list[1] = x
  PROVE  list = <<x>>
OBVIOUS

\* A run that could be carried out is reported, and none before it.
LEMMA DoneIsReported ==
  ASSUME NEW count \in Nat, NEW ended \in Seq(EndedRuns(count)), NEW run \in EndedRuns(count),
         run.end \in {"passed", "failed"}
  PROVE  /\ LastDone(Append(ended, run)) = Len(ended) + 1
         /\ Append(ended, run)[Len(ended) + 1] = run
         /\ Shown(Append(ended, run)) = <<run>>
<1> DEFINE more == Append(ended, run)
           m == Len(ended) + 1
<1>1. /\ more \in Seq(EndedRuns(count)) /\ Len(more) = m /\ m \in Nat \ {0} /\ more[m] = run
      /\ DOMAIN more = 1 .. m
  OBVIOUS
<1> HIDE DEF more, m
<1>2. m \in Done(more) /\ Done(more) \subseteq 1 .. m
  BY <1>1 DEF Done
<1>3. LastDone(more) = m
  BY <1>1, <1>2, LastDoneIs
<1>4. run \in HasALine
  BY DEF EndedRuns, HasALine, Ends
<1>5. Shown(more) = Within(SubSeq(more, m, m), HasALine)
  BY <1>1, <1>3 DEF Shown
<1>6. SubSeq(more, m, m) = <<run>>
  <2>1. \A k \in m .. m : more[k] \in EndedRuns(count)
    BY <1>1
  <2>2. PICK one : one = SubSeq(more, m, m)
    OBVIOUS
  <2>3. /\ Len(one) = m - m + 1 /\ one \in Seq(EndedRuns(count))
        /\ \A k \in 1 .. m - m + 1 : one[k] = more[m + k - 1]
    BY <1>1, <2>1, <2>2, SubSeqProperties
  <2>4. m - m + 1 = 1 /\ m + 1 - 1 = m
    BY <1>1
  <2>5. Len(one) = 1 /\ one[1] = run
    BY <1>1, <2>3, <2>4
  <2>6. one = <<run>>
    BY <2>3, <2>5, ListOfOne
  <2> QED
    BY <2>2, <2>6
<1>7. <<run>> \in Seq(HasALine)
  BY <1>4
<1>8. Within(<<run>>, HasALine) = <<run>>
  BY <1>7, WithinAll
<1> QED
  BY <1>1, <1>3, <1>5, <1>6, <1>8 DEF more, m

\* A run that could not is reported after what was reported before, if at all.
LEMMA OtherIsReported ==
  ASSUME NEW count \in Nat, NEW ended \in Seq(EndedRuns(count)), NEW run \in EndedRuns(count),
         run.end \in {"impossible", "panicked"}
  PROVE  /\ LastDone(Append(ended, run)) = LastDone(ended)
         /\ LastDone(ended) # 0 => Append(ended, run)[LastDone(ended)] = ended[LastDone(ended)]
         /\ Shown(ended) \in Seq(EndedRuns(count))
         /\ Shown(Append(ended, run)) =
              IF run.end = "impossible" THEN Append(Shown(ended), run) ELSE Shown(ended)
<1> DEFINE more == Append(ended, run)
           m == Len(ended)
           from == From(ended)
           rest == SubSeq(ended, from, m)
<1>1. /\ more \in Seq(EndedRuns(count)) /\ Len(more) = m + 1 /\ m \in Nat /\ more[m + 1] = run
      /\ DOMAIN more = 1 .. m + 1 /\ DOMAIN ended = 1 .. m /\ \A k \in 1 .. m : more[k] = ended[k]
  OBVIOUS
<1>2. from \in 1 .. m + 1 /\ Shown(ended) = Within(rest, HasALine)
  BY FromIs
<1>3. Done(more) = Done(ended) /\ Done(ended) \subseteq 1 .. m
  <2> HIDE DEF more, m
  <2> QED
    BY <1>1 DEF Done
<1>4. LastDone(more) = LastDone(ended) /\ LastDone(ended) \in Done(ended) \cup {0}
  <2>1. LastDone(ended) \in Done(ended) \cup {0} /\ \A j \in Done(ended) : j <= LastDone(ended)
    BY LastDoneIs
  <2> HIDE DEF more
  <2> QED
    BY <1>1, <1>3, <2>1, LastDoneIs
<1>5. LastDone(ended) # 0 => more[LastDone(ended)] = ended[LastDone(ended)]
  BY <1>1, <1>3, <1>4
<1>6. Shown(more) = Within(SubSeq(more, from, m + 1), HasALine)
  <2> HIDE DEF more, m
  <2> QED
    BY <1>1, <1>4 DEF Shown, From
<1>7. rest \in Seq(EndedRuns(count))
  <2>1. \A k \in from .. m : ended[k] \in EndedRuns(count)
    BY <1>1, <1>2, ElementOfSeq
  <2> HIDE DEF m, from
  <2> QED
    BY <1>1, <1>2, <2>1, SubSeqProperties
<1>8. SubSeq(more, from, m + 1) = Append(rest, run)
  <2> HIDE DEF more, m, from
  <2>1. /\ Len(rest) = IF from <= m THEN m - from + 1 ELSE 0
        /\ \A k \in 1 .. m - from + 1 : rest[k] = ended[from + k - 1]
    <3>1. \A k \in from .. m : ended[k] \in EndedRuns(count)
      BY <1>1, <1>2, ElementOfSeq DEF m
    <3> QED
      BY <1>1, <1>2, <3>1, SubSeqProperties
  <2>2. PICK long : long = SubSeq(more, from, m + 1)
    OBVIOUS
  <2>3. /\ Len(long) = m + 1 - from + 1 /\ long \in Seq(EndedRuns(count))
        /\ \A k \in 1 .. m + 1 - from + 1 : long[k] = more[from + k - 1]
    <3>1. \A k \in from .. m + 1 : more[k] \in EndedRuns(count)
      BY <1>1, <1>2, ElementOfSeq
    <3> QED
      BY <1>1, <1>2, <2>2, <3>1, SubSeqProperties
  <2>4. PICK tail : tail = rest
    OBVIOUS
  <2>5. tail \in Seq(EndedRuns(count)) /\ Len(tail) = m - from + 1 /\ m - from + 1 \in Nat
        /\ \A k \in 1 .. m - from + 1 : tail[k] = ended[from + k - 1]
    BY <1>1, <1>2, <1>7, <2>1, <2>4
  <2>6. /\ Append(tail, run) \in Seq(EndedRuns(count)) /\ Len(Append(tail, run)) = m - from + 2
        /\ \A k \in 1 .. m - from + 1 : Append(tail, run)[k] = tail[k]
        /\ Append(tail, run)[m - from + 2] = run
    <3>1. /\ Append(tail, run) \in Seq(EndedRuns(count)) /\ Len(Append(tail, run)) = Len(tail) + 1
          /\ \A k \in 1 .. Len(tail) : Append(tail, run)[k] = tail[k]
          /\ Append(tail, run)[Len(tail) + 1] = run
      <4>1. PICK X : X = EndedRuns(count)
        OBVIOUS
      <4>2. tail \in Seq(X) /\ run \in X
        BY <2>5, <4>1
      <4> QED
        BY <4>1, <4>2, AppendProperties
    <3>2. (m - from + 1) + 1 = m - from + 2
      BY <1>1, <1>2
    <3> QED
      BY <2>5, <3>1, <3>2
  <2>7. m + 1 - from + 1 = m - from + 2 /\ m - from + 2 \in Nat
    BY <1>1, <1>2
  <2>8. ASSUME NEW k \in 1 .. m - from + 2 PROVE long[k] = Append(tail, run)[k]
    <3>1. CASE k \in 1 .. m - from + 1
      <4>1. from + k - 1 \in 1 .. m
        BY <1>1, <1>2, <3>1
      <4>2. long[k] = more[from + k - 1]
        BY <2>3, <2>7
      <4>3. tail[k] = ended[from + k - 1] /\ Append(tail, run)[k] = tail[k]
        BY <2>5, <2>6, <3>1
      <4> QED
        BY <1>1, <4>1, <4>2, <4>3
    <3>2. CASE k = m - from + 2
      <4>1. from + k - 1 = m + 1
        BY <1>1, <1>2, <3>2
      <4>2. long[k] = more[m + 1]
        BY <2>3, <2>7, <3>2, <4>1
      <4>3. Append(tail, run)[k] = run
        BY <2>6, <3>2
      <4> QED
        BY <1>1, <4>2, <4>3
    <3>3. k \in 1 .. m - from + 1 \/ k = m - from + 2
      <4>1. m \in Nat /\ from \in Nat /\ from <= m + 1
        BY <1>1, <1>2
      <4> QED
        BY <4>1
    <3> QED
      BY <3>1, <3>2, <3>3
  <2>9. PICK both : both = Append(tail, run)
    OBVIOUS
  <2>10. long = both
    BY <2>3, <2>6, <2>7, <2>8, <2>9, SeqEqual
  <2> QED
    BY <2>2, <2>4, <2>9, <2>10
<1>9. Shown(ended) \in Seq(EndedRuns(count))
  <2>1. PICK Z : Z = EndedRuns(count) \cap HasALine
    OBVIOUS
  <2> HIDE DEF rest
  <2>2. Within(rest, HasALine) \in Seq(Z)
    BY <1>7, <2>1, WithinIsList
  <2> QED
    BY <1>2, <2>1, <2>2, SeqMonotonic
<1>10. run \in HasALine <=> run.end = "impossible"
  BY DEF EndedRuns, HasALine, Ends
<1>11. Within(Append(rest, run), HasALine) =
         IF run \in HasALine THEN Append(Within(rest, HasALine), run) ELSE Within(rest, HasALine)
  <2> HIDE DEF rest
  <2> QED
    BY <1>7, WithinAppend
<1> HIDE DEF more, m, from, rest
<1>12. Shown(more) = IF run.end = "impossible" THEN Append(Shown(ended), run) ELSE Shown(ended)
  BY <1>2, <1>6, <1>8, <1>10, <1>11
<1> QED
  BY <1>4, <1>5, <1>9, <1>12 DEF more

-----------------------------------------------------------------------------
(* Handles.                                                                *)

\* The numbers of one more run.
LEMMA OneMoreLine ==
  ASSUME NEW count \in Nat, NEW ended \in Seq(EndedRuns(count)), NEW run \in EndedRuns(count)
  PROVE  [k \in DOMAIN Append(ended, run) |-> Append(ended, run)[k].n] =
           Append([k \in DOMAIN ended |-> ended[k].n], run.n)
<1> DEFINE more == Append(ended, run)
           ns == [k \in DOMAIN ended |-> ended[k].n]
           m == Len(ended)
<1>1. /\ more \in Seq(EndedRuns(count)) /\ m \in Nat /\ more[m + 1] = run
      /\ DOMAIN more = 1 .. m + 1 /\ DOMAIN ended = 1 .. m /\ \A k \in 1 .. m : more[k] = ended[k]
  OBVIOUS
<1>2. \A k \in 1 .. m : ended[k].n \in 1 .. count
  <2>1. \A k \in 1 .. m : ended[k] \in EndedRuns(count)
    BY ElementOfSeq
  <2> QED
    BY <2>1 DEF EndedRuns
<1>3. run.n \in 1 .. count
  BY DEF EndedRuns
<1>4. ns \in Seq(1 .. count) /\ Len(ns) = m /\ \A k \in 1 .. m : ns[k] = ended[k].n
  BY <1>1, <1>2
<1> HIDE DEF more, ns, m
<1>5. /\ Append(ns, run.n) = [k \in 1 .. m + 1 |-> IF k <= m THEN ns[k] ELSE run.n]
  <2>1. PICK n : n = run.n
    OBVIOUS
  <2>2. Append(ns, n) = [k \in 1 .. m + 1 |-> IF k <= m THEN ns[k] ELSE n]
    BY <1>1, <1>3, <1>4, <2>1
  <2> QED
    BY <2>1, <2>2
<1>6. \A k \in 1 .. m + 1 : more[k].n = IF k <= m THEN ns[k] ELSE run.n
  BY <1>1, <1>4
<1>7. [k \in DOMAIN more |-> more[k].n] = Append(ns, run.n)
  BY <1>1, <1>5, <1>6
<1> QED
  BY <1>7 DEF more, ns

\* A handle of these settings that reports the same runs.
LEMMA ConfiguredIs ==
  ASSUME NEW count, NEW value, HandleIs(value, count),
         NEW name \in Providers, NEW transports \in Seq({name}), NEW sources,
         NEW asked \in Texts \X Texts \X BOOLEAN
  PROVE  HandleIs([name |-> name, transports |-> transports, sources |-> sources,
                   filter |-> FilterInfo(asked[1], asked[2], asked[3]), asked |-> asked,
                   verdict |-> value.verdict, lines |-> value.lines, ended |-> value.ended], count)
<1> DEFINE new == [name |-> name, transports |-> transports, sources |-> sources,
                   filter |-> FilterInfo(asked[1], asked[2], asked[3]), asked |-> asked,
                   verdict |-> value.verdict, lines |-> value.lines, ended |-> value.ended]
<1>1. /\ value.verdict \in BOOLEAN /\ value.lines \in Seq(1 .. count)
      /\ value.ended \in Seq(EndedRuns(count))
  BY DEF HandleIs
<1>2. new \in [name : Providers, transports : Seq({new.name}), sources : {new.sources},
               filter : {FilterInfo(new.asked[1], new.asked[2], new.asked[3])},
               asked : Texts \X Texts \X BOOLEAN,
               verdict : BOOLEAN, lines : Seq(1 .. count), ended : Seq(EndedRuns(count))]
  BY <1>1
<1>3. new.verdict = value.verdict /\ new.lines = value.lines /\ new.ended = value.ended
  OBVIOUS
<1> HIDE DEF new
<1>4. Reports(new)
  BY <1>3 DEF HandleIs, Reports
<1>5. HandleIs(new, count)
  BY <1>2, <1>4 DEF HandleIs
<1> QED
  BY <1>5 DEF new

LEMMA NewHandleIs ==
  ASSUME NEW count \in Nat
  PROVE  HandleIs(NewHandle, count)
<1>1. NewHandle \in [name : Providers, transports : Seq({NewHandle.name}), sources : {NewHandle.sources},
               filter : {FilterInfo(NewHandle.asked[1], NewHandle.asked[2], NewHandle.asked[3])},
               asked : Texts \X Texts \X BOOLEAN,
               verdict : BOOLEAN, lines : Seq(1 .. count), ended : Seq(EndedRuns(count))]
  <2> DEFINE none == [description |-> "", state |-> "", hasState |-> FALSE]
             nothing == <<"", "", FALSE>>
  <2>1. nothing \in Texts \X Texts \X BOOLEAN
    BY DEF Texts
  <2>2. none = FilterInfo(nothing[1], nothing[2], nothing[3])
    BY DEF FilterInfo
  <2>3. NewHandle = [name |-> "provider", transports |-> <<>>, sources |-> <<>>, filter |-> none,
                     asked |-> nothing, verdict |-> TRUE, lines |-> <<>>, ended |-> <<>>]
    BY DEF NewHandle
  <2> HIDE DEF none, nothing
  <2>4. /\ NewHandle.name = "provider" /\ NewHandle.sources = <<>> /\ NewHandle.asked = nothing
    BY <2>3
  <2>5. /\ <<>> \in Seq({"provider"}) /\ <<>> \in {<<>>} /\ TRUE \in BOOLEAN
        /\ <<>> \in Seq(1 .. count) /\ <<>> \in Seq(EndedRuns(count))
    OBVIOUS
  <2> QED
    BY <2>1, <2>2, <2>3, <2>4, <2>5, FfiVerifierAssumption
<1>2. <<>> \in Seq(EndedRuns(count)) /\ DOMAIN <<>> = {} /\ Len(<<>>) = 0
  OBVIOUS
<1>3. Done(<<>>) = {}
  BY DEF Done
<1>4. LastDone(<<>>) = 0
  BY <1>3 DEF LastDone
<1>5. SubSeq(<<>>, 1, 0) = <<>>
  BY SubSeqEmpty
<1>6. Shown(<<>>) = <<>>
  BY <1>2, <1>4, <1>5, WithinEmpty DEF Shown
<1>7. NewHandle.verdict = TRUE /\ NewHandle.lines = <<>> /\ NewHandle.ended = <<>>
  BY DEF NewHandle
<1>8. Reports(NewHandle)
  <2>1. [k \in DOMAIN <<>> |-> <<>>[k].n] = <<>>
    BY <1>2
  <2>2. TRUE = (LastDone(<<>>) = 0 \/ <<>>[LastDone(<<>>)].end = "passed")
    BY <1>4
  <2> QED
    BY <1>6, <1>7, <2>1, <2>2 DEF Reports
<1> QED
  BY <1>1, <1>8 DEF HandleIs

\* A handle after one more run.
EndedWith(value, verdict, lines, run) ==
  [name |-> value.name, transports |-> value.transports, sources |-> value.sources,
   filter |-> value.filter, asked |-> value.asked,
   verdict |-> verdict, lines |-> lines, ended |-> Append(value.ended, run)]

LEMMA EndedIs ==
  ASSUME NEW count \in Nat, NEW value, HandleIs(value, count), NEW run \in EndedRuns(count),
         NEW verdict \in BOOLEAN, NEW lines \in Seq(1 .. count),
         LET ended == Append(value.ended, run)
             last  == LastDone(ended)
         IN  /\ verdict = (last = 0 \/ ended[last].end = "passed")
             /\ lines = [k \in DOMAIN Shown(ended) |-> Shown(ended)[k].n]
  PROVE  HandleIs(EndedWith(value, verdict, lines, run), count)
<1> DEFINE new == EndedWith(value, verdict, lines, run)
<1>1. /\ value.name \in Providers /\ value.transports \in Seq({value.name})
      /\ value.filter = FilterInfo(value.asked[1], value.asked[2], value.asked[3])
      /\ value.asked \in Texts \X Texts \X BOOLEAN
      /\ value.ended \in Seq(EndedRuns(count))
  BY DEF HandleIs
<1>2. PICK ended : ended = Append(value.ended, run)
  OBVIOUS
<1>3. ended \in Seq(EndedRuns(count))
  BY <1>1, <1>2, AppendProperties
<1>4. /\ new.name = value.name /\ new.sources = value.sources /\ new.asked = value.asked
      /\ new.verdict = verdict /\ new.lines = lines /\ new.ended = ended
  BY <1>2 DEF EndedWith
<1>5. new \in [name : Providers, transports : Seq({new.name}), sources : {new.sources},
               filter : {FilterInfo(new.asked[1], new.asked[2], new.asked[3])},
               asked : Texts \X Texts \X BOOLEAN,
               verdict : BOOLEAN, lines : Seq(1 .. count), ended : Seq(EndedRuns(count))]
  BY <1>1, <1>2, <1>3, <1>4 DEF EndedWith
<1> HIDE DEF new
<1>6. Reports(new)
  BY <1>2, <1>4 DEF Reports
<1> QED
  BY <1>5, <1>6 DEF HandleIs, new

LEMMA DoneHandleIs ==
  ASSUME NEW count \in Nat, NEW value, HandleIs(value, count), NEW n \in 1 .. count,
         NEW end \in {"passed", "failed"}
  PROVE  HandleIs(EndedWith(value, end = "passed", <<n>>, [n |-> n, end |-> end]), count)
<1> DEFINE run == [n |-> n, end |-> end]
<1>1. run \in EndedRuns(count) /\ run.end = end /\ run.n = n
  BY DEF EndedRuns, Ends
<1> HIDE DEF run
<1>2. value.ended \in Seq(EndedRuns(count)) /\ Len(value.ended) \in Nat
  BY DEF HandleIs
<1>3. PICK ended, last : ended = Append(value.ended, run) /\ last = Len(value.ended) + 1
  OBVIOUS
<1>4. LastDone(ended) = last /\ ended[last] = run /\ Shown(ended) = <<run>> /\ last # 0
  BY <1>1, <1>2, <1>3, DoneIsReported
<1>5. [k \in DOMAIN <<run>> |-> <<run>>[k].n] = <<n>>
  BY <1>1
<1>6. /\ (end = "passed") = (LastDone(ended) = 0 \/ ended[LastDone(ended)].end = "passed")
      /\ <<n>> = [k \in DOMAIN Shown(ended) |-> Shown(ended)[k].n]
  <2>1. (end = "passed") = (LastDone(ended) = 0 \/ ended[LastDone(ended)].end = "passed")
    BY <1>1, <1>4
  <2>2. <<n>> = [k \in DOMAIN Shown(ended) |-> Shown(ended)[k].n]
    BY <1>4, <1>5
  <2> QED
    BY <2>1, <2>2
<1>7. (end = "passed") \in BOOLEAN /\ <<n>> \in Seq(1 .. count)
  OBVIOUS
<1> QED
  BY <1>1, <1>3, <1>6, <1>7, EndedIs DEF run

LEMMA OtherHandleIs ==
  ASSUME NEW count \in Nat, NEW value, HandleIs(value, count), NEW n \in 1 .. count,
         NEW end \in {"impossible", "panicked"}
  PROVE  HandleIs(EndedWith(value, value.verdict,
                            IF end = "impossible" THEN Append(value.lines, n) ELSE value.lines,
                            [n |-> n, end |-> end]), count)
<1> DEFINE run == [n |-> n, end |-> end]
           lines == IF end = "impossible" THEN Append(value.lines, n) ELSE value.lines
<1>1. run \in EndedRuns(count) /\ run.end = end /\ run.n = n
  BY DEF EndedRuns, Ends
<1> HIDE DEF run
<1>2. /\ value.ended \in Seq(EndedRuns(count)) /\ value.lines \in Seq(1 .. count)
      /\ value.verdict \in BOOLEAN
  BY DEF HandleIs
<1>3. /\ value.verdict = (LastDone(value.ended) = 0 \/ value.ended[LastDone(value.ended)].end = "passed")
      /\ value.lines = [k \in DOMAIN Shown(value.ended) |-> Shown(value.ended)[k].n]
  BY DEF HandleIs, Reports
<1>4. PICK ended, shown, old : ended = Append(value.ended, run) /\ shown = Shown(value.ended) /\ old = value.lines
  OBVIOUS
<1>5. /\ LastDone(ended) = LastDone(value.ended)
      /\ LastDone(value.ended) # 0 => ended[LastDone(value.ended)] = value.ended[LastDone(value.ended)]
      /\ shown \in Seq(EndedRuns(count))
      /\ Shown(ended) = IF end = "impossible" THEN Append(shown, run) ELSE shown
  BY <1>1, <1>2, <1>4, OtherIsReported
<1>6. value.verdict = (LastDone(ended) = 0 \/ ended[LastDone(ended)].end = "passed")
  BY <1>3, <1>5
<1>7. lines = [k \in DOMAIN Shown(ended) |-> Shown(ended)[k].n]
  <2>1. old = [k \in DOMAIN shown |-> shown[k].n]
    BY <1>3, <1>4
  <2>2. [k \in DOMAIN Append(shown, run) |-> Append(shown, run)[k].n] = Append([k \in DOMAIN shown |-> shown[k].n], run.n)
    BY <1>1, <1>5, OneMoreLine
  <2>3. CASE end = "impossible"
    BY <1>1, <1>4, <1>5, <2>1, <2>2, <2>3
  <2>4. CASE end # "impossible"
    BY <1>4, <1>5, <2>1, <2>4
  <2> QED
    BY <2>3, <2>4
<1>8. lines \in Seq(1 .. count)
  BY <1>2, AppendProperties
<1> HIDE DEF lines
<1>9. HandleIs(EndedWith(value, value.verdict, lines, run), count)
  BY <1>1, <1>2, <1>4, <1>6, <1>7, <1>8, EndedIs
<1> QED
  BY <1>9 DEF run, lines

\* With more runs counted.
LEMMA CountedIs ==
  ASSUME NEW count \in Nat, NEW value, HandleIs(value, count)
  PROVE  HandleIs(value, count + 1)
<1>1. /\ 1 .. count \subseteq 1 .. count + 1 /\ EndedRuns(count) \subseteq EndedRuns(count + 1)
  BY DEF EndedRuns
<1>2. value \in [name : Providers, transports : Seq({value.name}), sources : {value.sources},
                filter : {FilterInfo(value.asked[1], value.asked[2], value.asked[3])},
                asked : Texts \X Texts \X BOOLEAN,
                verdict : BOOLEAN, lines : Seq(1 .. count), ended : Seq(EndedRuns(count))]
  BY DEF HandleIs
<1>3. value.lines \in Seq(1 .. count + 1)
  BY <1>1, <1>2, SeqMonotonic
<1>4. value.ended \in Seq(EndedRuns(count + 1))
  BY <1>1, <1>2, SeqMonotonic
<1>5. value \in [name : Providers, transports : Seq({value.name}), sources : {value.sources},
                filter : {FilterInfo(value.asked[1], value.asked[2], value.asked[3])},
                asked : Texts \X Texts \X BOOLEAN,
                verdict : BOOLEAN, lines : Seq(1 .. count + 1), ended : Seq(EndedRuns(count + 1))]
  BY <1>2, <1>3, <1>4
<1> QED
  BY <1>5 DEF HandleIs

\* A handle that is not in use is made, changed or freed.
LEMMA SetKeeps ==
  ASSUME HandlesInOrder, NEW h \in Handles, handle[h] = None \/ h \notin InUse, NEW value,
         Set(h, value), value = None \/ HandleIs(value, runs), UNCHANGED <<running, runs>>
  PROVE  HandlesInOrder'
<1>1. /\ runs \in Nat /\ DOMAIN handle = Handles /\ DOMAIN running = Threads
      /\ runs' = runs /\ running' = running
  BY DEF HandlesInOrder
<1>2. /\ DOMAIN handle' = Handles /\ handle'[h] = value
      /\ \A g \in Handles : g # h => handle'[g] = handle[g]
  BY <1>1 DEF Set
<1>3. ASSUME NEW g \in Handles, handle'[g] # None PROVE HandleIs(handle'[g], runs)
  BY <1>2, <1>3 DEF HandlesInOrder
<1>4. ASSUME NEW t \in Threads, running[t] # None
      PROVE  /\ running[t] \in [handle : Handles, n : 1 .. runs]
             /\ handle'[running[t].handle] # None
             /\ \A u \in Threads : running[u] # None /\ running[u].handle = running[t].handle => u = t
  <2>1. /\ running[t] \in [handle : Handles, n : 1 .. runs]
        /\ handle[running[t].handle] # None
        /\ \A u \in Threads : running[u] # None /\ running[u].handle = running[t].handle => u = t
    BY <1>4 DEF HandlesInOrder
  <2>2. running[t].handle \in InUse
    BY <1>4 DEF InUse, Free
  <2>3. running[t].handle # h /\ running[t].handle \in Handles
    BY <2>1, <2>2
  <2> QED
    BY <1>2, <2>1, <2>3
<1>5. \A g \in Handles : handle'[g] # None => HandleIs(handle'[g], runs)
  BY <1>3
<1>6. HandleIs(handle, runs)' = HandleIs(handle', runs')
  BY DEF HandleIs, Reports
<1> QED
  BY <1>1, <1>2, <1>4, <1>5 DEF HandlesInOrder

LEMMA EndKeeps ==
  ASSUME HandlesInOrder, NEW t \in Threads, running[t] # None, NEW value, HandleIs(value, runs),
         Set(running[t].handle, value), running' = [running EXCEPT ![t] = None], runs' = runs
  PROVE  HandlesInOrder'
<1> DEFINE h == running[t].handle
<1>1. /\ runs \in Nat /\ DOMAIN handle = Handles /\ DOMAIN running = Threads /\ h \in Handles
  BY DEF HandlesInOrder
<1>2. /\ DOMAIN handle' = Handles /\ handle'[h] = value
      /\ \A g \in Handles : g # h => handle'[g] = handle[g]
      /\ DOMAIN running' = Threads /\ running'[t] = None
      /\ \A u \in Threads : u # t => running'[u] = running[u]
  BY <1>1 DEF Set
<1>3. ASSUME NEW g \in Handles, handle'[g] # None PROVE HandleIs(handle'[g], runs)
  BY <1>2, <1>3 DEF HandlesInOrder
<1>4. ASSUME NEW u \in Threads, running'[u] # None
      PROVE  /\ running'[u] \in [handle : Handles, n : 1 .. runs]
             /\ handle'[running'[u].handle] # None
             /\ \A v \in Threads : running'[v] # None /\ running'[v].handle = running'[u].handle => v = u
  <2>1. u # t /\ running'[u] = running[u]
    BY <1>2, <1>4
  <2>2. /\ running[u] \in [handle : Handles, n : 1 .. runs]
        /\ handle[running[u].handle] # None
        /\ \A v \in Threads : running[v] # None /\ running[v].handle = running[u].handle => v = u
    BY <1>4, <2>1 DEF HandlesInOrder
  <2>3. running[u].handle # h /\ running[u].handle \in Handles
    BY <2>1, <2>2
  <2>4. \A v \in Threads : running'[v] # None => running'[v] = running[v]
    BY <1>2
  <2> QED
    BY <1>2, <2>1, <2>2, <2>3, <2>4
<1>5. \A g \in Handles : handle'[g] # None => HandleIs(handle'[g], runs)
  BY <1>3
<1> QED
  BY <1>1, <1>2, <1>4, <1>5 DEF HandlesInOrder

LEMMA ExecuteKeeps ==
  ASSUME HandlesInOrder, NEW t \in Threads, NEW h \in Handles, Execute(t, h)
  PROVE  HandlesInOrder'
<1> DEFINE run == [handle |-> h, n |-> runs + 1]
<1>1. /\ runs \in Nat /\ DOMAIN handle = Handles /\ DOMAIN running = Threads
      /\ handle[h] # None /\ h \notin InUse /\ running[t] = None
      /\ runs' = runs + 1 /\ handle' = handle /\ running' = [running EXCEPT ![t] = run]
  BY DEF HandlesInOrder, Execute, Idle, Free
<1>2. run.handle = h /\ run \in [handle : Handles, n : 1 .. runs + 1] /\ 1 .. runs \subseteq 1 .. runs + 1
  BY <1>1
<1> HIDE DEF run
<1>3. /\ DOMAIN running' = Threads /\ running'[t] = run
      /\ \A u \in Threads : u # t => running'[u] = running[u]
  BY <1>1
<1>4. \A u \in Threads : running[u] # None => running[u].handle # h
  BY <1>1 DEF InUse, Free
<1>5. ASSUME NEW g \in Handles, handle[g] # None PROVE HandleIs(handle[g], runs + 1)
  <2>1. HandleIs(handle[g], runs)
    BY <1>5 DEF HandlesInOrder
  <2> QED
    BY <1>1, <2>1, CountedIs
<1>6. ASSUME NEW u \in Threads, running'[u] # None
      PROVE  /\ running'[u] \in [handle : Handles, n : 1 .. runs + 1]
             /\ handle[running'[u].handle] # None
             /\ \A v \in Threads : running'[v] # None /\ running'[v].handle = running'[u].handle => v = u
  <2>1. CASE u = t
    BY <1>1, <1>2, <1>3, <1>4, <2>1
  <2>2. CASE u # t
    <3>1. /\ running[u] \in [handle : Handles, n : 1 .. runs]
          /\ handle[running[u].handle] # None
          /\ \A v \in Threads : running[v] # None /\ running[v].handle = running[u].handle => v = u
      BY <1>3, <1>6, <2>2 DEF HandlesInOrder
    <3> QED
      BY <1>2, <1>3, <1>4, <1>6, <2>2, <3>1
  <2> QED
    BY <2>1, <2>2
<1>7. runs + 1 \in Nat
  BY <1>1
<1> QED
  BY <1>1, <1>3, <1>5, <1>6, <1>7 DEF HandlesInOrder

LEMMA AcceptKeeps ==
  ASSUME HandlesInOrder, NEW t \in Threads, NEW h \in Handles, NEW value, Accept(t, h, value),
         HandleIs(value, runs)
  PROVE  HandlesInOrder'
<1>1. h \notin InUse /\ Set(h, value) /\ UNCHANGED <<running, runs>>
  BY DEF Accept, Idle
<1> QED
  BY <1>1, SetKeeps

\* A handle by its fields.
Fields(name, transports, sources, filter, asked, verdict, lines, ended) ==
  [name |-> name, transports |-> transports, sources |-> sources, filter |-> filter,
   asked |-> asked, verdict |-> verdict, lines |-> lines, ended |-> ended]

\* What the setters make of a handle.
LEMMA SetterKeeps ==
  ASSUME HandlesInOrder, NEW t \in Threads, NEW h \in Handles, Setter(t, h)
  PROVE  HandlesInOrder'
<1> DEFINE value == handle[h]
           NewValue(name, transports, sources, asked) ==
             [name |-> name, transports |-> transports, sources |-> sources,
              filter |-> FilterInfo(asked[1], asked[2], asked[3]), asked |-> asked,
              verdict |-> value.verdict, lines |-> value.lines, ended |-> value.ended]
<1>1. CASE value # None
  <2>1. HandleIs(value, runs)
    BY <1>1 DEF HandlesInOrder
  <2>2. /\ value \in [name : Providers, transports : Seq({value.name}), sources : {value.sources},
                      filter : {FilterInfo(value.asked[1], value.asked[2], value.asked[3])},
                      asked : Texts \X Texts \X BOOLEAN,
                      verdict : BOOLEAN, lines : Seq(1 .. runs), ended : Seq(EndedRuns(runs))]
    BY <2>1 DEF HandleIs
  <2> HIDE DEF value
  <2>3. /\ value.name \in Providers /\ value.transports \in Seq({value.name})
        /\ value.asked \in Texts \X Texts \X BOOLEAN
        /\ value.filter = FilterInfo(value.asked[1], value.asked[2], value.asked[3])
    BY <2>2
  <2>a. PICK a, b, c, d, e, f, g, i :
          value = Fields(a, b, c, d, e, f, g, i)
    BY <2>2 DEF Fields
  <2>4. \A name \in Providers : \A transports \in Seq({name}) : \A sources :
          \A asked \in Texts \X Texts \X BOOLEAN : HandleIs(NewValue(name, transports, sources, asked), runs)
    BY <2>1, ConfiguredIs
  <2>b. /\ a = value.name /\ b = value.transports /\ c = value.sources /\ d = value.filter
        /\ e = value.asked /\ f = value.verdict /\ g = value.lines /\ i = value.ended
    BY <2>a DEF Fields
  <2>5. ASSUME NEW name \in Providers, SetProviderInfo(t, h, name) PROVE HandlesInOrder'
    <3>1. ProviderInfo(value, name) = NewValue(name, <<name>>, value.sources, value.asked)
      <4>1. PICK one, list : one = [value EXCEPT !.name = name] /\ list = <<name>>
        OBVIOUS
      <4>2. one = Fields(name, b, c, d, e, f, g, i)
        BY <2>a, <4>1 DEF Fields
      <4>3. [one EXCEPT !.transports = list] = Fields(name, list, c, d, e, f, g, i)
        BY <4>2 DEF Fields
      <4>4. ProviderInfo(value, name) = [one EXCEPT !.transports = list]
        BY <4>1 DEF ProviderInfo
      <4> QED
        BY <2>3, <2>b, <4>1, <4>3, <4>4 DEF Fields
    <3>2. <<name>> \in Seq({name})
      OBVIOUS
    <3>3. HandleIs(ProviderInfo(value, name), runs)
      BY <2>3, <2>4, <3>1, <3>2
    <3> QED
      BY <2>5, <3>3, AcceptKeeps DEF SetProviderInfo, value
  <2>6. ASSUME AddTransport(t, h) PROVE HandlesInOrder'
    <3> DEFINE new == [value EXCEPT !.transports = Append(@, value.name)]
    <3>1. new = NewValue(value.name, Append(value.transports, value.name), value.sources, value.asked)
      <4>1. PICK list : list = Append(value.transports, value.name)
        OBVIOUS
      <4>2. [value EXCEPT !.transports = list] = Fields(a, list, c, d, e, f, g, i)
        BY <2>a DEF Fields
      <4> QED
        BY <2>3, <2>b, <4>1, <4>2 DEF Fields
    <3>2. Append(value.transports, value.name) \in Seq({value.name})
      BY <2>3, AppendProperties
    <3> HIDE DEF new, NewValue
    <3>3. HandleIs(new, runs)
      BY <2>3, <2>4, <3>1, <3>2
    <3>4. Accept(t, h, new)
      BY <2>6 DEF AddTransport, value, new
    <3> QED
      BY <3>3, <3>4, AcceptKeeps
  <2>7. ASSUME NEW description \in Texts, NEW state \in Texts, NEW noState \in BOOLEAN,
               SetFilterInfo(t, h, description, state, noState)
        PROVE  HandlesInOrder'
    <3> DEFINE asked == <<description, state, noState>>
               new == [value EXCEPT !.filter = FilterInfo(description, state, noState), !.asked = asked]
    <3>1. asked \in Texts \X Texts \X BOOLEAN /\ asked[1] = description /\ asked[2] = state /\ asked[3] = noState
      OBVIOUS
    <3> HIDE DEF asked
    <3>2. new = NewValue(value.name, value.transports, value.sources, asked)
      <4>1. PICK filter, one : filter = FilterInfo(description, state, noState) /\ one = [value EXCEPT !.filter = filter]
        OBVIOUS
      <4>2. one = Fields(a, b, c, filter, e, f, g, i)
        BY <2>a, <4>1 DEF Fields
      <4>3. [one EXCEPT !.asked = asked] = Fields(a, b, c, filter, asked, f, g, i)
        BY <4>2 DEF Fields
      <4> QED
        BY <2>b, <3>1, <4>1, <4>3 DEF Fields
    <3> HIDE DEF new, NewValue
    <3>3. HandleIs(new, runs)
      BY <2>3, <2>4, <3>1, <3>2
    <3>4. Accept(t, h, new)
      BY <2>7 DEF SetFilterInfo, value, asked, new
    <3> QED
      BY <3>3, <3>4, AcceptKeeps
  <2>8. ASSUME NEW source, Accept(t, h, [value EXCEPT !.sources = Append(@, source)])
        PROVE  HandlesInOrder'
    <3> DEFINE new == [value EXCEPT !.sources = Append(@, source)]
    <3>1. new = NewValue(value.name, value.transports, Append(value.sources, source), value.asked)
      <4>1. PICK list : list = Append(value.sources, source)
        OBVIOUS
      <4>2. [value EXCEPT !.sources = list] = Fields(a, b, list, d, e, f, g, i)
        BY <2>a DEF Fields
      <4> QED
        BY <2>3, <2>b, <4>1, <4>2 DEF Fields
    <3>2. HandleIs(new, runs)
      BY <2>3, <2>4, <3>1
    <3> QED
      BY <2>8, <3>2, AcceptKeeps
  <2>9. ASSUME AddSource(t, h) \/ AddBrokerSource(t, h) PROVE HandlesInOrder'
    BY <2>8, <2>9 DEF AddSource, AddBrokerSource, value
  <2>10. ASSUME NEW given, NEW tags, AddBrokerSourceWithSelectors(t, h, given, tags) PROVE HandlesInOrder'
    <3>1. CASE UNCHANGED handleVars
      BY <3>1 DEF HandlesInOrder, handleVars
    <3>2. CASE Accept(t, h, [value EXCEPT !.sources = Append(@, Broker(handle[h], Selectors(given, tags)))])
      BY <2>8, <3>2
    <3> QED
      BY <2>10, <3>1, <3>2 DEF AddBrokerSourceWithSelectors, value
  <2> QED
    BY <2>5, <2>6, <2>7, <2>9, <2>10 DEF Setter
<1>2. CASE value = None
  BY <1>2 DEF Setter, SetProviderInfo, AddTransport, SetFilterInfo, AddSource, AddBrokerSource,
              AddBrokerSourceWithSelectors, Accept, Idle
<1> QED
  BY <1>1, <1>2

\* The ends of a run.
LEMMA EndsKeep ==
  ASSUME HandlesInOrder, NEW t \in Threads,
         \/ \E end \in {"passed", "failed"} : RunDone(t, end)
         \/ RunImpossible(t)
         \/ \E bad \in BOOLEAN : RunPanics(t, bad)
  PROVE  HandlesInOrder'
<1> DEFINE value == handle[running[t].handle]
           n == running[t].n
<1>1. running[t] # None
  BY DEF RunDone, RunImpossible, RunPanics, Free
<1>2. HandleIs(value, runs) /\ n \in 1 .. runs /\ runs \in Nat
  <2>1. running[t] \in [handle : Handles, n : 1 .. runs] /\ handle[running[t].handle] # None /\ runs \in Nat
    BY <1>1 DEF HandlesInOrder
  <2> QED
    BY <2>1 DEF HandlesInOrder
<1>3. PICK a, b, c, d, e, f, g, i :
        value = Fields(a, b, c, d, e, f, g, i)
  BY <1>2 DEF HandleIs, Fields
<1>b. /\ a = value.name /\ b = value.transports /\ c = value.sources /\ d = value.filter
      /\ e = value.asked /\ f = value.verdict /\ g = value.lines /\ i = value.ended
  BY <1>3 DEF Fields
<1>4. ASSUME NEW end, NEW new, Ended(t, end, new)
      PROVE  /\ Set(running[t].handle, [new EXCEPT !.ended = Append(@, [n |-> n, end |-> end])])
             /\ running' = [running EXCEPT ![t] = None] /\ runs' = runs
  BY <1>4 DEF Ended
<1>5. ASSUME NEW end \in {"passed", "failed"}, RunDone(t, end) PROVE HandlesInOrder'
  <2> DEFINE new == [value EXCEPT !.verdict = (end = "passed"), !.lines = <<n>>]
             last == [new EXCEPT !.ended = Append(@, [n |-> n, end |-> end])]
  <2>1. Ended(t, end, new)
    BY <1>5 DEF RunDone
  <2>2. HandleIs(EndedWith(value, end = "passed", <<n>>, [n |-> n, end |-> end]), runs)
    BY <1>2, DoneHandleIs
  <2>3. last = EndedWith(value, end = "passed", <<n>>, [n |-> n, end |-> end])
    <3>1. PICK run, passed, lines : run = [n |-> n, end |-> end] /\ passed = (end = "passed") /\ lines = <<n>>
      OBVIOUS
    <3>2. PICK v, one : v = value /\ one = [v EXCEPT !.verdict = passed]
      OBVIOUS
    <3>3. one = Fields(a, b, c, d, e, passed, g, i)
      BY <1>3, <3>2 DEF Fields
    <3>a. PICK two : two = [one EXCEPT !.lines = lines]
      OBVIOUS
    <3>4. two = Fields(a, b, c, d, e, passed, lines, i)
      BY <3>3, <3>a DEF Fields
    <3>5. PICK runs_ : runs_ = Append(two.ended, run)
      OBVIOUS
    <3>6. [two EXCEPT !.ended = runs_] = Fields(a, b, c, d, e, passed, lines, runs_) /\ two.ended = i
      BY <3>4 DEF Fields
    <3> QED
      BY <1>b, <3>1, <3>2, <3>5, <3>6, <3>a DEF Fields, EndedWith
  <2>4. /\ Set(running[t].handle, last)
        /\ running' = [running EXCEPT ![t] = None] /\ runs' = runs
    BY <1>4, <2>1
  <2>5. HandleIs(last, runs)
    BY <2>2, <2>3
  <2> QED
    BY <1>1, <2>4, <2>5, EndKeeps
<1>6. ASSUME RunImpossible(t) PROVE HandlesInOrder'
  <2> DEFINE new == [value EXCEPT !.lines = Append(@, n)]
             run == [n |-> n, end |-> "impossible"]
             last == [new EXCEPT !.ended = Append(@, run)]
  <2>1. Ended(t, "impossible", new)
    BY <1>6 DEF RunImpossible
  <2>2. HandleIs(EndedWith(value, value.verdict, Append(value.lines, n), run), runs)
    BY <1>2, OtherHandleIs
  <2>3. last = EndedWith(value, value.verdict, Append(value.lines, n), run)
    <3>1. PICK r, v, lines : r = run /\ v = value /\ lines = Append(v.lines, n)
      OBVIOUS
    <3>2. PICK one : one = [v EXCEPT !.lines = lines]
      OBVIOUS
    <3>3. one = Fields(a, b, c, d, e, f, lines, i)
      <4>1. v = Fields(a, b, c, d, e, f, g, i)
        BY <1>3, <3>1
      <4> QED
        BY <3>2, <4>1 DEF Fields
    <3>4. PICK runs_ : runs_ = Append(one.ended, r)
      OBVIOUS
    <3>5. [one EXCEPT !.ended = runs_] = Fields(a, b, c, d, e, f, lines, runs_) /\ one.ended = i
      BY <3>3 DEF Fields
    <3> QED
      BY <1>b, <3>1, <3>2, <3>4, <3>5 DEF Fields, EndedWith
  <2>4. /\ Set(running[t].handle, last)
        /\ running' = [running EXCEPT ![t] = None] /\ runs' = runs
    BY <1>4, <2>1
  <2>5. HandleIs(last, runs)
    BY <2>2, <2>3
  <2> QED
    BY <1>1, <2>4, <2>5, EndKeeps
<1>7. ASSUME NEW bad, RunPanics(t, bad) PROVE HandlesInOrder'
  <2> DEFINE run == [n |-> n, end |-> "panicked"]
             last == [value EXCEPT !.ended = Append(@, run)]
  <2>1. Ended(t, "panicked", value)
    BY <1>7 DEF RunPanics
  <2>2. HandleIs(EndedWith(value, value.verdict, value.lines, run), runs)
    BY <1>2, OtherHandleIs
  <2>3. last = EndedWith(value, value.verdict, value.lines, run)
    <3>1. PICK r, v : r = run /\ v = value
      OBVIOUS
    <3>2. PICK runs_ : runs_ = Append(v.ended, r)
      OBVIOUS
    <3>3. [v EXCEPT !.ended = runs_] = Fields(a, b, c, d, e, f, g, runs_) /\ v.ended = i
      BY <1>3, <3>1 DEF Fields
    <3> QED
      BY <1>b, <3>1, <3>2, <3>3 DEF Fields, EndedWith
  <2>4. /\ Set(running[t].handle, last)
        /\ running' = [running EXCEPT ![t] = None] /\ runs' = runs
    BY <1>4, <2>1
  <2>5. HandleIs(last, runs)
    BY <2>2, <2>3
  <2> QED
    BY <1>1, <2>4, <2>5, EndKeeps
<1> QED
  BY <1>5, <1>6, <1>7

-----------------------------------------------------------------------------
(* Steps.                                                                  *)

\* What a step does to each part of the state.
ErrorStep ==
  \/ UNCHANGED errorVars
  \/ \E t \in Threads : \/ \E bad \in BOOLEAN : Fail(t, bad)
                        \/ \E room \in {"null", "small", "enough"} : GetErrorMessage(t, room)

LoggerStep ==
  \/ UNCHANGED loggerVars
  \/ FileChanges
  \/ \E t \in Threads : LoggerCall(t)

TextStep ==
  \/ UNCHANGED textVars
  \/ \E id \in Ids, level \in Nat, bad \in BOOLEAN :
       Logged(buffer, id, level, bad) /\ UNCHANGED <<delivered, lost>>
  \/ \E t \in Threads, id \in Ids : FetchLogBuffer(t, id) \/ ExtractVerifierLogs(t, id)

HandleStep ==
  \/ UNCHANGED handleVars
  \/ \E t \in Threads, h \in Handles : New(t, h) \/ Shutdown(t, h) \/ Setter(t, h) \/ Execute(t, h)
  \/ \E t \in Threads : \/ \E end \in {"passed", "failed"} : RunDone(t, end)
                        \/ RunImpossible(t)
                        \/ \E bad \in BOOLEAN : RunPanics(t, bad)

StepIs == ErrorStep /\ LoggerStep /\ TextStep /\ HandleStep

\* Calls on handles that are not executing.
LEMMA HandleCallIs ==
  ASSUME NEW t \in Threads, NEW h \in Handles,
         New(t, h) \/ Shutdown(t, h) \/ Setter(t, h) \/ Execute(t, h)
  PROVE  StepIs
<1>1. ASSUME NEW value, Accept(t, h, value) PROVE UNCHANGED <<errorVars, loggerVars, textVars>>
  BY <1>1 DEF Accept, Return, NoFail
<1>a. ASSUME Setter(t, h) PROVE UNCHANGED <<errorVars, loggerVars, textVars>>
  <2>1. CASE \E name \in Providers : SetProviderInfo(t, h, name)
    BY <1>1, <2>1 DEF SetProviderInfo
  <2>2. CASE AddTransport(t, h)
    BY <1>1, <2>2 DEF AddTransport
  <2>3. CASE \E description, state \in Texts, noState \in BOOLEAN : SetFilterInfo(t, h, description, state, noState)
    BY <1>1, <2>3 DEF SetFilterInfo
  <2>4. CASE AddSource(t, h) \/ AddBrokerSource(t, h)
    BY <1>1, <2>4 DEF AddSource, AddBrokerSource
  <2>5. ASSUME NEW given, NEW tags, AddBrokerSourceWithSelectors(t, h, given, tags)
        PROVE  UNCHANGED <<errorVars, loggerVars, textVars>>
    <3>1. CASE \E value : Accept(t, h, value)
      BY <1>1, <3>1
    <3>2. CASE Return(t, -1) /\ UNCHANGED <<loggerVars, textVars, handleVars>>
      BY <3>2 DEF Return, NoFail
    <3> QED
      BY <2>5, <3>1, <3>2 DEF AddBrokerSourceWithSelectors
  <2> QED
    BY <1>a, <2>1, <2>2, <2>3, <2>4, <2>5 DEF Setter
<1>2. CASE Setter(t, h)
  <2>1. UNCHANGED <<errorVars, loggerVars, textVars>>
    BY <1>2, <1>a
  <2> QED
    BY <1>2, <2>1 DEF StepIs, ErrorStep, LoggerStep, TextStep, HandleStep
<1>3. CASE New(t, h) \/ Shutdown(t, h)
  <2>1. UNCHANGED <<errorVars, loggerVars, textVars>>
    BY <1>3 DEF New, Shutdown, Return, NoFail
  <2> QED
    BY <1>3, <2>1 DEF StepIs, ErrorStep, LoggerStep, TextStep, HandleStep
<1>4. CASE Execute(t, h)
  <2>1. UNCHANGED <<errorVars, loggerVars, textVars>>
    BY <1>4 DEF Execute, logVars
  <2> QED
    BY <1>4, <2>1 DEF StepIs, ErrorStep, LoggerStep, TextStep, HandleStep
<1> QED
  BY <1>2, <1>3, <1>4

\* Calls that ask for what was logged.
LEMMA LogsCallIs ==
  ASSUME NEW t \in Threads, NEW id \in Ids, FetchLogBuffer(t, id) \/ ExtractVerifierLogs(t, id),
         UNCHANGED handleVars
  PROVE  StepIs
<1>1. UNCHANGED <<errorVars, loggerVars>>
  BY DEF FetchLogBuffer, ExtractVerifierLogs, Return, NoFail
<1> QED
  BY <1>1 DEF StepIs, ErrorStep, LoggerStep, TextStep, HandleStep

\* What a run does.
LEMMA RunIs ==
  ASSUME HandlesInOrder, NEW t \in Threads, Run(t)
  PROVE  StepIs
<1>1. ASSUME NEW level \in Levels, NEW bad \in BOOLEAN, RunLogs(t, level, bad) PROVE StepIs
  <2>1. LogId(running[t]) \in Ids
    <3>1. running[t] # None
      BY <1>1 DEF RunLogs, Free
    <3>2. running[t] \in [handle : Handles, n : 1 .. runs] /\ handle[running[t].handle] # None
      BY <3>1 DEF HandlesInOrder
    <3>3. HandleIs(handle[running[t].handle], runs)
      BY <3>2 DEF HandlesInOrder
    <3> QED
      BY <3>3 DEF HandleIs, LogId, Ids
  <2>2. level \in Nat
    BY FfiLogAssumption
  <2>3. /\ Logged(buffer, LogId(running[t]), level, bad) /\ UNCHANGED <<delivered, lost>>
        /\ UNCHANGED <<errorVars, loggerVars, handleVars>>
    BY <1>1 DEF RunLogs
  <2> QED
    BY <2>1, <2>2, <2>3 DEF StepIs, ErrorStep, LoggerStep, TextStep, HandleStep
<1>2. ASSUME NEW end \in {"passed", "failed"}, RunDone(t, end) PROVE StepIs
  <2>1. UNCHANGED <<errorVars, loggerVars, textVars>>
    BY <1>2 DEF RunDone, Ended, Return, NoFail
  <2> QED
    BY <1>2, <2>1 DEF StepIs, ErrorStep, LoggerStep, TextStep, HandleStep
<1>3. CASE RunImpossible(t)
  <2>1. UNCHANGED <<errorVars, loggerVars>>
    BY <1>3 DEF RunImpossible, Ended, Return, NoFail
  <2>2. Logged(buffer, "global", 1, FALSE) /\ UNCHANGED <<delivered, lost>>
    BY <1>3 DEF RunImpossible
  <2>3. "global" \in Ids /\ 1 \in Nat /\ FALSE \in BOOLEAN
    BY DEF Ids
  <2>4. TextStep
    BY <2>2, <2>3 DEF TextStep
  <2> QED
    BY <1>3, <2>1, <2>4 DEF StepIs, ErrorStep, LoggerStep, HandleStep
<1>4. ASSUME NEW bad \in BOOLEAN, RunPanics(t, bad) PROVE StepIs
  <2>1. UNCHANGED <<loggerVars, textVars>> /\ Fail(t, bad)
    BY <1>4 DEF RunPanics, Ended, Refuse
  <2> QED
    BY <1>4, <2>1 DEF StepIs, ErrorStep, LoggerStep, TextStep, HandleStep
<1> QED
  BY <1>1, <1>2, <1>3, <1>4 DEF Run

\* What the calls of the logger leave alone.
LEMMA LoggerCallIs ==
  ASSUME NEW t \in Threads, LoggerCall(t), UNCHANGED handleVars
  PROVE  StepIs
<1>1. UNCHANGED textVars /\ (UNCHANGED errorVars \/ Fail(t, FALSE))
  <2>1. ASSUME NEW sinks, Apply(t, sinks) PROVE UNCHANGED textVars /\ UNCHANGED errorVars
    BY <2>1 DEF Apply, Return, NoFail
  <2>2. CASE LoggerInit(t)
    BY <2>2 DEF LoggerInit, Return, NoFail
  <2>3. CASE \E sink \in Specifiers, level \in SinkLevels : AttachSink(t, sink, level)
    BY <2>3 DEF AttachSink, Return, NoFail
  <2>4. CASE LoggerApply(t)
    BY <2>1, <2>4 DEF LoggerApply
  <2>5. CASE \E sink \in {"stdout", "buffer", "file", "other"}, level \in SinkLevels : LogTo(t, sink, level)
    BY <2>1, <2>5 DEF LogTo, Return, NoFail
  <2>6. CASE \E name \in {"null", "notUtf8"} : LogToNoFile(t, name)
    BY <2>6 DEF LogToNoFile, Return, NoFail, Refuse
  <2>7. CASE \E level \in SinkLevels : InitWithLevel(t, level)
    BY <2>7 DEF InitWithLevel, Return, NoFail
  <2> QED
    BY <2>2, <2>3, <2>4, <2>5, <2>6, <2>7 DEF LoggerCall
<1>2. ErrorStep
  BY <1>1 DEF ErrorStep
<1> QED
  BY <1>1, <1>2 DEF StepIs, LoggerStep, TextStep, HandleStep

\* A call of a thread.
LEMMA CallIs ==
  ASSUME HandlesInOrder, NEW t \in Threads, Call(t)
  PROVE  StepIs
<1>1. ASSUME ErrorCall(t) \/ \E s \in {0, 1, -2} : RefuseArgument(t, s), UNCHANGED handleVars PROVE StepIs
  <2>1. CASE ErrorCall(t)
    <3>1. UNCHANGED <<loggerVars, textVars>>
      BY <2>1 DEF ErrorCall, GetErrorMessage
    <3> QED
      BY <1>1, <2>1, <3>1 DEF StepIs, ErrorStep, LoggerStep, TextStep, HandleStep, ErrorCall
  <2>2. ASSUME NEW s, RefuseArgument(t, s) PROVE StepIs
    <3>1. UNCHANGED <<loggerVars, textVars, handleVars>> /\ Fail(t, FALSE)
      BY <2>2 DEF RefuseArgument, Refuse
    <3>2. ErrorStep
      BY <3>1 DEF ErrorStep
    <3> QED
      BY <3>1, <3>2 DEF StepIs, LoggerStep, TextStep, HandleStep
  <2> QED
    BY <1>1, <2>1, <2>2
<1>2. ASSUME LoggerCall(t), UNCHANGED handleVars PROVE StepIs
  BY <1>2, LoggerCallIs
<1>3. ASSUME LogToBuffer(t) PROVE LoggerCall(t)
  BY <1>3 DEF LogToBuffer, LoggerCall
<1>4. ASSUME SetUpBuffer(t) PROVE LoggerCall(t)
  <2>1. "buffer" \in Specifiers
    BY DEF Specifiers
  <2> QED
    BY <1>4, <2>1 DEF SetUpBuffer, LoggerCall
<1>5. ASSUME TextCall(t), UNCHANGED handleVars PROVE StepIs
  <2>1. ASSUME NEW level \in Levels, NEW bad \in BOOLEAN, LogMessage(t, level, bad) PROVE StepIs
    <3>1. /\ Logged(buffer, "global", level, bad) /\ UNCHANGED <<delivered, lost>>
          /\ UNCHANGED <<errorVars, loggerVars>>
      BY <2>1 DEF LogMessage, Return, NoFail
    <3>2. "global" \in Ids /\ level \in Nat
      BY FfiLogAssumption DEF Ids
    <3>3. TextStep
      BY <3>1, <3>2 DEF TextStep
    <3> QED
      BY <1>5, <3>1, <3>3 DEF StepIs, ErrorStep, LoggerStep, HandleStep
  <2>2. ASSUME NEW id \in Ids, FetchLogBuffer(t, id) PROVE StepIs
    BY <1>5, <2>2, LogsCallIs
  <2> QED
    BY <1>5, <2>1, <2>2 DEF TextCall
<1>6. ASSUME NEW h \in Handles, Setter(t, h) \/ New(t, h) \/ Shutdown(t, h) \/ Execute(t, h) PROVE StepIs
  BY <1>6, HandleCallIs
<1>7. ASSUME NEW h \in Handles, NEW name \in Providers, SetProviderInfo(t, h, name) PROVE StepIs
  <2>1. Setter(t, h)
    BY <1>7 DEF Setter
  <2> QED
    BY <1>6, <2>1
<1>8. ASSUME NEW h \in Handles, Logs(t, h) PROVE StepIs
  <2>1. ExtractVerifierLogs(t, handle[h].name) /\ UNCHANGED handleVars /\ handle[h] # None
    BY <1>8 DEF Logs, Idle
  <2>2. HandleIs(handle[h], runs)
    BY <2>1 DEF HandlesInOrder
  <2>3. handle[h].name \in Ids
    BY <2>2 DEF HandleIs, Ids
  <2> QED
    BY <2>1, <2>3, LogsCallIs
<1>9. ASSUME NEW name \in Providers, LogsForProvider(t, name) PROVE StepIs
  <2>1. name \in Ids
    BY DEF Ids
  <2> QED
    BY <1>9, <2>1, LogsCallIs DEF LogsForProvider
<1> QED
  BY <1>1, <1>2, <1>3, <1>4, <1>5, <1>6, <1>7, <1>8, <1>9 DEF Call

LEMMA StepsAre ==
  ASSUME HandlesInOrder, [Next]_vars
  PROVE  StepIs
<1>1. CASE UNCHANGED vars
  BY <1>1 DEF vars, logVars, StepIs, ErrorStep, LoggerStep, TextStep, HandleStep
<1>2. CASE "logger" \in client /\ FileChanges /\ UNCHANGED handleVars
  <2>1. UNCHANGED <<errorVars, textVars, handleVars>>
    BY <1>2 DEF FileChanges
  <2> QED
    BY <1>2, <2>1 DEF StepIs, ErrorStep, LoggerStep, TextStep, HandleStep
<1>3. CASE \E t \in Threads : (Free(t) /\ Call(t)) \/ Run(t)
  BY <1>3, CallIs, RunIs
<1> QED
  BY <1>1, <1>2, <1>3 DEF Next

\* Every step keeps the whole of it.
LEMMA StepKeeps ==
  ASSUME ReportingInv, [Next]_vars
  PROVE  ReportingInv'
<1>0. ErrorsInOrder /\ LoggerInOrder /\ TextsInOrder /\ HandlesInOrder
  BY DEF ReportingInv
<1>1. ErrorStep /\ LoggerStep /\ TextStep /\ HandleStep
  BY <1>0, StepsAre DEF StepIs
<1>2. ErrorsInOrder'
  <2>1. CASE UNCHANGED errorVars
    BY <1>0, <2>1, ErrorsStay
  <2> QED
    BY <1>0, <1>1, <2>1, FailKeeps, GetKeeps DEF ErrorStep
<1>3. LoggerInOrder'
  <2>1. CASE UNCHANGED loggerVars
    BY <1>0, <2>1 DEF LoggerInOrder, loggerVars
  <2> QED
    BY <1>0, <1>1, <2>1, FileKeeps, LoggerCallKeeps DEF LoggerStep
<1>4. TextsInOrder'
  <2>1. CASE UNCHANGED textVars
    <3>1. TextsAre(texts, buffer, wrote, delivered, lost)
      BY <1>0 DEF TextsInOrder
    <3>2. TextsAre(texts', buffer', wrote', delivered', lost')
      BY <2>1, <3>1 DEF textVars
    <3> QED
      BY <3>2 DEF TextsInOrder
  <2> QED
    BY <1>0, <1>1, <2>1, LoggedIsKept, FetchKeeps, ExtractKeeps DEF TextStep
<1>5. HandlesInOrder'
  <2>1. CASE UNCHANGED handleVars
    BY <1>0, <2>1 DEF HandlesInOrder, handleVars
  <2>2. ASSUME NEW t \in Threads, NEW h \in Handles, New(t, h) PROVE HandlesInOrder'
    <3>1. runs \in Nat
      BY <1>0 DEF HandlesInOrder
    <3>2. HandleIs(NewHandle, runs)
      BY <3>1, NewHandleIs
    <3>3. handle[h] = None /\ Set(h, NewHandle) /\ UNCHANGED <<running, runs>>
      BY <2>2 DEF New
    <3> QED
      BY <1>0, <3>2, <3>3, SetKeeps
  <2>3. ASSUME NEW t \in Threads, NEW h \in Handles, Shutdown(t, h) PROVE HandlesInOrder'
    <3>1. h \notin InUse /\ Set(h, None) /\ UNCHANGED <<running, runs>>
      BY <2>3 DEF Shutdown, Idle
    <3> QED
      BY <1>0, <3>1, SetKeeps
  <2> QED
    BY <1>0, <1>1, <2>1, <2>2, <2>3, SetterKeeps, ExecuteKeeps, EndsKeep DEF HandleStep
<1> QED
  BY <1>2, <1>3, <1>4, <1>5 DEF ReportingInv

-----------------------------------------------------------------------------
(* What follows.                                                           *)

LEMMA InitInv ==
  ASSUME Init
  PROVE  ReportingInv
<1>0. LogInit
  BY DEF Init
<1>1. ErrorsInOrder
  <2>1. /\ lastError = [t \in Threads |-> None] /\ errors = [t \in Threads |-> 0]
        /\ told = [t \in Threads |-> <<>>]
    BY <1>0 DEF LogInit
  <2>2. <<>> \in Seq([of : Threads, n : Nat, bad : BOOLEAN]) /\ DOMAIN <<>> = {}
    OBVIOUS
  <2> QED
    BY <2>1, <2>2 DEF ErrorsInOrder, ErrorsOf
<1>2. LoggerInOrder
  <2>1. /\ alive = TRUE /\ vanished = FALSE /\ logger = [t \in Threads |-> <<>>]
        /\ subscriber = None /\ canOpen \in BOOLEAN
    BY <1>0 DEF LogInit
  <2>2. <<>> \in Seq(SinkSet) /\ DOMAIN <<>> = {}
    OBVIOUS
  <2> QED
    BY <2>1, <2>2 DEF LoggerInOrder
<1>3. TextsInOrder
  <2>1. /\ texts = 0 /\ lost = {} /\ buffer = [id \in Ids |-> <<>>]
        /\ wrote = [id \in Ids |-> <<>>] /\ delivered = [id \in Ids |-> <<>>]
    BY <1>0 DEF LogInit
  <2>2. <<>> \in Seq([n : 1 .. 0, bad : BOOLEAN]) /\ <<>> \in Seq(1 .. 0) /\ DOMAIN <<>> = {}
    OBVIOUS
  <2>3. Numbers(<<>>) = <<>> /\ <<>> \o <<>> = <<>>
    BY <2>2 DEF Numbers
  <2>4. Within(<<>>, Nat \ {}) = <<>>
    BY WithinEmpty
  <2>5. TextsAre(0, [id \in Ids |-> <<>>], [id \in Ids |-> <<>>], [id \in Ids |-> <<>>], {})
    BY <2>2, <2>3, <2>4 DEF TextsAre
  <2> QED
    BY <2>1, <2>5 DEF TextsInOrder
<1>4. HandlesInOrder
  BY DEF Init, HandlesInOrder
<1> QED
  BY <1>1, <1>2, <1>3, <1>4 DEF ReportingInv

LEMMA TypesFollow ==
  ASSUME ReportingInv
  PROVE  TypeOK
<1>0. ErrorsInOrder /\ LoggerInOrder /\ TextsInOrder /\ HandlesInOrder
  BY DEF ReportingInv
<1>1. ASSUME NEW t \in Threads
      PROVE  /\ lastError[t] # None => lastError[t].n \in 1 .. errors[t]
             /\ \A k \in DOMAIN logger[t] : logger[t][k].sink \in {"stdout", "buffer", "file"}
             /\ running[t] # None => handle[running[t].handle] # None
  <2>1. lastError[t] # None => lastError[t].n \in 1 .. errors[t]
    BY <1>0 DEF ErrorsInOrder, ErrorsOf
  <2>2. \A k \in DOMAIN logger[t] : logger[t][k].sink \in {"stdout", "buffer", "file"}
    <3>1. logger[t] \in Seq(SinkSet)
      BY <1>0 DEF LoggerInOrder
    <3>2. \A k \in DOMAIN logger[t] : logger[t][k] \in SinkSet
      BY <3>1, ElementOfSeq, LenProperties
    <3> QED
      BY <3>2 DEF SinkSet
  <2>3. running[t] # None => handle[running[t].handle] # None
    BY <1>0 DEF HandlesInOrder
  <2> QED
    BY <2>1, <2>2, <2>3
<1>2. ASSUME NEW h \in Handles, handle[h] # None
      PROVE  /\ handle[h].name \in Providers
             /\ \A k \in DOMAIN handle[h].lines : handle[h].lines[k] \in 1 .. runs
  <2>1. HandleIs(handle[h], runs)
    BY <1>0, <1>2 DEF HandlesInOrder
  <2>2. handle[h].name \in Providers /\ handle[h].lines \in Seq(1 .. runs)
    BY <2>1 DEF HandleIs
  <2> QED
    BY <2>2, ElementOfSeq, LenProperties
<1>3. ASSUME NEW id \in Ids PROVE ToSet(Numbers(buffer[id])) \subseteq 1 .. texts
  <2>1. texts \in Nat /\ buffer[id] \in Seq([n : 1 .. texts, bad : BOOLEAN])
    BY <1>0 DEF TextsInOrder, TextsAre
  <2>2. Numbers(buffer[id]) \in Seq(1 .. texts)
    BY <2>1, NumbersAre
  <2>3. \A k \in DOMAIN Numbers(buffer[id]) : Numbers(buffer[id])[k] \in 1 .. texts
    BY <2>2, ElementOfSeq, LenProperties
  <2> QED
    BY <2>3 DEF ToSet
<1> QED
  BY <1>1, <1>2, <1>3 DEF TypeOK

\* A filter that was made of what was asked selects what was asked.
SelectsAsAsked(first, second, noState, description, states) ==
  FilterInteraction([description |-> description, states |-> states],
                    FilterInfo(first, second, noState))
    <=> /\ first \in {"", "any", description}
        /\ second # "" => states # {} /\ (second = "any" \/ second \in states)
        /\ second = "" /\ noState => states = {}

LEMMA FilterIsAsAsked ==
  ASSUME NEW first \in Texts, NEW second \in Texts, NEW noState \in BOOLEAN,
         NEW description \in {"a", "b"}, NEW states \in SUBSET {"a", "b"}
  PROVE  SelectsAsAsked(first, second, noState, description, states)
<1> DEFINE filter == FilterInfo(first, second, noState)
           interaction == [description |-> description, states |-> states]
<1>1. /\ filter.description = first /\ filter.state = second
      /\ filter.hasState = (second # "" \/ noState)
      /\ interaction.description = description /\ interaction.states = states
  BY DEF FilterInfo
<1>2. filter.hasState \in BOOLEAN
  BY <1>1
<1> HIDE DEF filter, interaction
<1>3. (first # "" => IsMatch(first, description)) <=> first \in {"", "any", description}
  BY DEF IsMatch
<1>4. second = "" => (MatchState(filter, states) <=> states = {} /\ filter.hasState)
  BY <1>1 DEF MatchState
<1>5. second # "" => (MatchState(filter, states) <=> states # {} /\ (second = "any" \/ second \in states))
  BY <1>1 DEF MatchState, IsMatch
<1>6. FilterInteraction(interaction, filter) <=>
        /\ first \in {"", "any", description}
        /\ filter.hasState => MatchState(filter, states)
  BY <1>1, <1>3 DEF FilterInteraction
<1>7. CASE second = ""
  <2>1. filter.hasState <=> noState
    BY <1>1, <1>7, Zenon
  <2> QED
    BY <1>4, <1>6, <1>7, <2>1 DEF filter, interaction, SelectsAsAsked
<1>8. CASE second # ""
  <2>1. filter.hasState
    BY <1>1, <1>8, Zenon
  <2> QED
    BY <1>5, <1>6, <1>8, <2>1 DEF filter, interaction, SelectsAsAsked
<1> QED
  BY <1>7, <1>8

LEMMA ConsistencyFollows ==
  ASSUME ReportingInv
  PROVE  HandlesAreConsistent
<1>1. ASSUME NEW h \in Handles, handle[h] # None PROVE HandleIs(handle[h], runs)
  BY <1>1 DEF ReportingInv, HandlesInOrder
<1>2. ReportsTheLastRun
  <2>1. ASSUME NEW h \in Handles, handle[h] # None, Len(handle[h].ended) \in Done(handle[h].ended)
        PROVE  handle[h].verdict = (handle[h].ended[Len(handle[h].ended)].end = "passed")
    <3>1. Reports(handle[h]) /\ handle[h].ended \in Seq(EndedRuns(runs))
      BY <1>1, <2>1 DEF HandleIs
    <3>2. \A x \in Done(handle[h].ended) \cup {0} :
            (\A j \in Done(handle[h].ended) : j <= x) => x = LastDone(handle[h].ended)
      BY <3>1, LastDoneIs
    <3>3. /\ Done(handle[h].ended) \subseteq 1 .. Len(handle[h].ended)
          /\ Len(handle[h].ended) \in Nat
      BY <3>1, DoneAre
    <3>4. LastDone(handle[h].ended) = Len(handle[h].ended) /\ Len(handle[h].ended) # 0
      BY <2>1, <3>2, <3>3
    <3> QED
      BY <3>1, <3>4 DEF Reports
  <2>2. ASSUME NEW h \in Handles, handle[h] # None
        PROVE  handle[h].lines = [k \in DOMAIN Shown(handle[h].ended) |-> Shown(handle[h].ended)[k].n]
    BY <1>1, <2>2 DEF HandleIs, Reports
  <2> QED
    BY <2>1, <2>2 DEF ReportsTheLastRun
<1>3. FilterSelectsAsAsked
  <2>1. ASSUME NEW h \in Handles, handle[h] # None, NEW description \in {"a", "b"}, NEW states \in SUBSET {"a", "b"}
        PROVE  FilterInteraction([description |-> description, states |-> states], handle[h].filter)
                 <=> /\ handle[h].asked[1] \in {"", "any", description}
                     /\ handle[h].asked[2] # "" =>
                          states # {} /\ (handle[h].asked[2] = "any" \/ handle[h].asked[2] \in states)
                     /\ handle[h].asked[2] = "" /\ handle[h].asked[3] => states = {}
    <3>1. /\ handle[h].filter = FilterInfo(handle[h].asked[1], handle[h].asked[2], handle[h].asked[3])
          /\ handle[h].asked \in Texts \X Texts \X BOOLEAN
      BY <1>1, <2>1 DEF HandleIs
    <3>2. /\ handle[h].asked[1] \in Texts /\ handle[h].asked[2] \in Texts
          /\ handle[h].asked[3] \in BOOLEAN
      BY <3>1
    <3>3. PICK first, second, noState : /\ first = handle[h].asked[1] /\ second = handle[h].asked[2]
                                        /\ noState = handle[h].asked[3]
      OBVIOUS
    <3>4. first \in Texts /\ second \in Texts /\ noState \in BOOLEAN
      BY <3>2, <3>3
    <3>5. SelectsAsAsked(first, second, noState, description, states)
      BY <3>4, FilterIsAsAsked
    <3>6. handle[h].filter = FilterInfo(first, second, noState)
      BY <3>1, <3>3
    <3>7. FilterInteraction([description |-> description, states |-> states], handle[h].filter)
            <=> /\ first \in {"", "any", description}
                /\ second # "" => states # {} /\ (second = "any" \/ second \in states)
                /\ second = "" /\ noState => states = {}
      BY <3>5, <3>6 DEF SelectsAsAsked
    <3> QED
      BY <3>3, <3>7, Zenon
  <2> QED
    BY <2>1 DEF FilterSelectsAsAsked
<1>4. TransportsAreOfTheProvider
  <2>1. ASSUME NEW h \in Handles, handle[h] # None, NEW k \in DOMAIN handle[h].transports
        PROVE  handle[h].transports[k] = handle[h].name
    <3>1. handle[h].transports \in Seq({handle[h].name})
      BY <1>1, <2>1 DEF HandleIs
    <3>2. handle[h].transports[k] \in {handle[h].name}
      BY <2>1, <3>1, ElementOfSeq, LenProperties
    <3> QED
      BY <3>2
  <2> QED
    BY <2>1 DEF TransportsAreOfTheProvider
<1> QED
  BY <1>2, <1>3, <1>4 DEF HandlesAreConsistent

LEMMA LoggingFollows ==
  ASSUME ReportingInv
  PROVE  LoggingIsSafe
<1>1. TypeOK
  BY TypesFollow
<1>2. SurvivesItsLogger
  BY DEF ReportingInv, LoggerInOrder, SurvivesItsLogger
<1>3. LogTextIsKept
  BY DEF ReportingInv, TextsInOrder, TextsAre, LogTextIsKept
<1> QED
  BY <1>1, <1>2, <1>3 DEF LoggingIsSafe

-----------------------------------------------------------------------------
(* The theorems.                                                           *)

\* Errors, logger, texts and handles are in order in every state, whatever
\* threads, handles and providers there are.
THEOREM ReportingInOrder == Spec => []ReportingInv
<1>1. Init => ReportingInv
  BY InitInv
<1>2. ReportingInv /\ [Next]_vars => ReportingInv'
  BY StepKeeps
<1> QED
  BY <1>1, <1>2, PTL DEF Spec

\* Error messages go to the thread whose call failed, once, and in order
\* (pactffi_get_error_message and the thread-local LAST_ERROR).
THEOREM ErrorsToldOnce == Spec => []ErrorsGoToTheirThreadOnce
<1>1. ReportingInv => ErrorsGoToTheirThreadOnce
  BY DEF ReportingInv, ErrorsInOrder, ErrorsOf, ErrorsGoToTheirThreadOnce
<1> QED
  BY <1>1, ReportingInOrder, PTL

\* No logger that was set up ends the process unless the log file vanished, and
\* every text is fetched from the buffer it was written to, once and in order,
\* unless a fetch came upon text it could not hand over.
THEOREM LoggingSafe == Spec => []LoggingIsSafe
<1>1. ReportingInv => LoggingIsSafe
  BY LoggingFollows
<1> QED
  BY <1>1, ReportingInOrder, PTL

\* Nothing stale is left in a handle: its output is of the last run that could
\* be carried out and of those since, the verdict is of the last run if that
\* could be carried out, the filter selects what was asked for last, and the
\* transports are of the provider.
THEOREM HandlesConsistent == Spec => []HandlesAreConsistent
<1>1. ReportingInv => HandlesAreConsistent
  BY ConsistencyFollows
<1> QED
  BY <1>1, ReportingInOrder, PTL
=============================================================================
