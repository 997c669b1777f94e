------------------------------- MODULE FfiLog -------------------------------
(***************************************************************************)
(* What the C API keeps for reporting: the last error of each thread       *)
(* (pact_ffi/src/error), the logger that a thread sets up and applies, and *)
(* the log buffers (pact_ffi/src/log).                                     *)
(*                                                                         *)
(* Any thread may make any call at any time; a call is one action, since   *)
(* what it touches is local to its thread or behind one mutex.  Texts are  *)
(* numbers, in the order in which they were written.  A text with a NUL    *)
(* byte in it is bad: it cannot be handed to C.                            *)
(***************************************************************************)
EXTENDS Integers, Sequences, FiniteSets, SequencesExt, Sublists

CONSTANTS
  None,         \* no error, no subscriber, no handle
  Threads,
  Providers,    \* names of providers; the logs of a verification are kept by name
  Levels,       \* levels of messages, from 1 for errors; level 0 of a sink is OFF
  MaxErrors,    \* bound on the errors of all threads
  MaxTexts,     \* bound on the texts written
  MaxSinks      \* bound on the sinks attached and not yet applied

ASSUME FfiLogAssumption ==
  /\ "global" \notin Providers
  /\ Levels \subseteq Nat \ {0}
  /\ {MaxErrors, MaxTexts, MaxSinks} \subseteq Nat

Info == 3
Ids == Providers \cup {"global"}

\* Specifiers: the named sinks, a file, "other" which is no sink, and one that
\* is not UTF-8.  "file" without a path is "other" too, since it is trimmed.
Specifiers == {"stdout", "buffer", "file", "other", "notUtf8"}

VARIABLES
  alive,        \* the process has not been aborted by a panic
  lastError,    \* LAST_ERROR of each thread
  errors,       \* history: number of errors of each thread
  told,         \* history: the errors that a thread was told
  logger,       \* LOGGER of each thread: the sinks attached so far
  subscriber,   \* the global subscriber
  canOpen,      \* whether the log file can be opened
  vanished,     \* history: the file could be opened, and then could not
  texts,        \* history: number of texts written
  buffer,       \* LOG_BUFFER: the texts of each id
  wrote,        \* history: what was written to each id
  delivered,    \* history: what was fetched from each id
  lost,         \* history: texts that a fetch took and could not hand over
  status        \* what the last call returned

errorVars == <<lastError, errors, told>>
loggerVars == <<logger, subscriber, canOpen, vanished, alive>>
textVars == <<texts, buffer, wrote, delivered, lost>>
logVars == <<errorVars, loggerVars, textVars, status>>

-----------------------------------------------------------------------------
(* The last error.                                                         *)

SumErrors == MapThenSumSet(LAMBDA t : errors[t], Threads)
SumSinks == MapThenSumSet(LAMBDA t : Len(logger[t]), Threads)

\* set_error_msg, by a call of thread t that failed.
Fail(t, bad) ==
  /\ SumErrors < MaxErrors
  /\ errors' = [errors EXCEPT ![t] = @ + 1]
  /\ lastError' = [lastError EXCEPT ![t] = [of |-> t, n |-> errors[t] + 1, bad |-> bad]]
  /\ UNCHANGED told

Tell(t, error) == [told EXCEPT ![t] = Append(@, error)]

NoFail == UNCHANGED errorVars

\* catch_panic: a call that fails or panics returns what the function names for it.
Refuse(t, sentinel, bad) ==
  /\ Fail(t, bad)
  /\ status' = sentinel

Return(t, value) ==
  /\ NoFail
  /\ status' = value

\* Mutant of GetErrorMessage: the message is read, not taken.
MGetErrorMessage(t, room) ==
  LET error == lastError[t] IN
  /\ UNCHANGED <<lastError, errors, loggerVars, textVars>>
  /\ IF room = "enough" /\ error # None
     THEN status' = 1 /\ told' = Tell(t, error)
     ELSE status' = -2 /\ UNCHANGED told

\* pactffi_get_error_message.  The message is taken before it is known whether
\* it can be written; no message at all is written as an empty one.
GetErrorMessage(t, room) ==
  LET error == lastError[t] IN
  /\ IF room = "null"
     THEN /\ status' = -1
          /\ UNCHANGED errorVars
     ELSE /\ lastError' = [lastError EXCEPT ![t] = None]
          /\ UNCHANGED errors
          /\ IF error = None \/ (room = "enough" /\ ~error.bad)
             THEN /\ status' = 1
                  /\ told' = IF error = None THEN told ELSE Tell(t, error)
             ELSE /\ status' = IF error.bad THEN -4 ELSE -2
                  /\ UNCHANGED told
  /\ UNCHANGED <<loggerVars, textVars>>

-----------------------------------------------------------------------------
(* The logger.                                                             *)

\* pactffi_logger_init
LoggerInit(t) ==
  /\ logger' = [logger EXCEPT ![t] = <<>>]
  /\ Return(t, 0)
  /\ UNCHANGED <<subscriber, canOpen, vanished, alive, textVars>>

\* pactffi_logger_attach_sink with Sink::try_from; it sets no error message.
AttachStatus(sink) ==
  CASE sink = "notUtf8" -> -3
    [] sink = "other"   -> -4
    [] sink = "file" /\ ~canOpen -> -6
    [] OTHER -> 0

\* add_sink
With(sinks, sink, level) == Append(sinks, [sink |-> sink, level |-> level])

AttachSink(t, sink, level) ==
  /\ SumSinks < MaxSinks
  /\ Return(t, AttachStatus(sink))
  /\ logger' = IF AttachStatus(sink) = 0
               THEN [logger EXCEPT ![t] = With(@, sink, level)]
               ELSE logger
  /\ UNCHANGED <<subscriber, canOpen, vanished, alive, textVars>>

\* sink_to_make_writer opens the file again and unwraps.
CanWrite(sinks) == canOpen \/ \A k \in DOMAIN sinks : sinks[k].sink # "file"

\* The subscriber that apply_logger builds: with no sink it writes to stdout,
\* up to Info.
Subscriber(sinks) ==
  IF sinks = <<>> THEN [sinks |-> <<>>, level |-> Info]
  ELSE [sinks |-> sinks,
        level |-> CHOOSE l \in {sinks[k].level : k \in DOMAIN sinks} :
                    \A k \in DOMAIN sinks : sinks[k].level <= l]

\* apply_logger.  The panic is not caught: pactffi_logger_apply is extern "C"
\* without catch_panic.  The sinks are gone whether or not try_init accepts.
Apply(t, sinks) ==
  /\ UNCHANGED <<canOpen, vanished, textVars>>
  /\ IF CanWrite(sinks)
     THEN /\ logger' = [logger EXCEPT ![t] = <<>>]
          /\ subscriber' = IF subscriber = None THEN Subscriber(sinks) ELSE subscriber
          /\ Return(t, IF subscriber = None THEN 0 ELSE -1)
          /\ UNCHANGED alive
     ELSE /\ alive' = FALSE
          /\ UNCHANGED <<logger, subscriber, status, errorVars>>

LoggerApply(t) == Apply(t, logger[t])

\* pactffi_log_to_stdout, _buffer and _file with a name that is UTF-8: init,
\* attach and apply, up to the first that fails.
LogTo(t, sink, level) ==
  IF AttachStatus(sink) = 0
  THEN Apply(t, With(<<>>, sink, level))
  ELSE /\ logger' = [logger EXCEPT ![t] = <<>>]
       /\ Return(t, AttachStatus(sink))
       /\ UNCHANGED <<subscriber, canOpen, vanished, alive, textVars>>

\* pactffi_log_to_file without a file name it can use.  Only for one that is
\* not UTF-8 is there a message.
LogToNoFile(t, name) ==
  /\ logger' = [logger EXCEPT ![t] = <<>>]
  /\ IF name = "null" THEN Return(t, -7) ELSE Refuse(t, -7, FALSE)
  /\ UNCHANGED <<subscriber, canOpen, vanished, alive, textVars>>

\* pactffi_init and pactffi_init_with_log_level: set_global_default, to stdout.
InitWithLevel(t, level) ==
  /\ subscriber' = IF subscriber = None
                   THEN [sinks |-> <<>>, level |-> level] ELSE subscriber
  /\ Return(t, 0)
  /\ UNCHANGED <<logger, canOpen, vanished, alive, textVars>>

\* The environment: the directory of the log file is removed, or made.
FileChanges ==
  /\ canOpen' = ~canOpen
  /\ vanished' = (vanished \/ canOpen)
  /\ UNCHANGED <<alive, logger, subscriber, errorVars, textVars, status>>
-----------------------------------------------------------------------------
(* The buffers.                                                            *)

\* How many of the buffer sinks of the subscriber take a text.
Copies(level) ==
  IF subscriber = None THEN 0
  ELSE Cardinality({k \in DOMAIN subscriber.sinks :
         /\ subscriber.sinks[k].sink = "buffer"
         /\ level <= subscriber.sinks[k].level
         /\ level <= subscriber.level})

\* write_to_log_buffer, once for each of them: to the LOG_ID of the task, which
\* only a verification has, else to "global".
Write(buffers, id, level, bad) ==
  [buffers EXCEPT ![id] = @ \o [k \in 1..Copies(level) |-> [n |-> texts + 1, bad |-> bad]]]

Numbers(contents) == [k \in DOMAIN contents |-> contents[k].n]

Logged(buffers, id, level, bad) ==
  /\ texts < MaxTexts
  /\ texts' = texts + 1
  /\ buffer' = Write(buffers, id, level, bad)
  /\ wrote' = [wrote EXCEPT ![id] = @ \o [k \in 1..Copies(level) |-> texts + 1]]

\* pactffi_log_message, and what the library itself logs outside verifications.
LogMessage(t, level, bad) ==
  /\ Logged(buffer, "global", level, bad)
  /\ Return(t, 0)
  /\ UNCHANGED <<delivered, lost, loggerVars>>

\* Mutant of Emptied: the text is copied, not split off.
MEmptied(id) == buffer

\* fetch_buffer_contents takes the text before it is known whether it can be
\* handed over.
Emptied(id) == [buffer EXCEPT ![id] = <<>>]

CanHandOver(contents) == \A k \in DOMAIN contents : ~contents[k].bad

Delivered(id) ==
  /\ delivered' = [delivered EXCEPT ![id] = @ \o Numbers(buffer[id])]
  /\ buffer' = Emptied(id)
  /\ UNCHANGED <<texts, wrote, lost>>

Lost(id) ==
  /\ lost' = lost \cup ToSet(Numbers(buffer[id]))
  /\ UNCHANGED delivered

\* pactffi_fetch_log_buffer: NULL, and an id that is not UTF-8, mean "global".
\* A text that cannot be handed over is gone, and the error about it is logged.
FetchLogBuffer(t, id) ==
  /\ IF CanHandOver(buffer[id])
     THEN Delivered(id) /\ Return(t, 1)
     ELSE Lost(id) /\ Logged(Emptied(id), "global", 1, FALSE) /\ Return(t, 0)
  /\ UNCHANGED loggerVars

\* extract_verifier_logs, which only prints the error.
ExtractVerifierLogs(t, name) ==
  /\ IF CanHandOver(buffer[name])
     THEN Delivered(name) /\ Return(t, 1)
     ELSE /\ Lost(name) /\ Return(t, 0)
          /\ buffer' = Emptied(name)
          /\ UNCHANGED <<texts, wrote>>
  /\ UNCHANGED loggerVars

-----------------------------------------------------------------------------
LogInit ==
  /\ alive = TRUE /\ vanished = FALSE
  /\ lastError = [t \in Threads |-> None]
  /\ errors = [t \in Threads |-> 0]
  /\ told = [t \in Threads |-> <<>>]
  /\ logger = [t \in Threads |-> <<>>]
  /\ subscriber = None
  /\ canOpen \in BOOLEAN
  /\ texts = 0
  /\ buffer = [id \in Ids |-> <<>>]
  /\ wrote = [id \in Ids |-> <<>>]
  /\ delivered = [id \in Ids |-> <<>>]
  /\ lost = {}
  /\ status = 0

SinkLevels == Levels \cup {0}

\* What the calls of the logger and of the last error do.
LoggerCall(t) ==
  \/ LoggerInit(t)
  \/ \E sink \in Specifiers, level \in SinkLevels : AttachSink(t, sink, level)
  \/ LoggerApply(t)
  \/ \E sink \in {"stdout", "buffer", "file", "other"}, level \in SinkLevels :
       LogTo(t, sink, level)
  \/ \E name \in {"null", "notUtf8"} : LogToNoFile(t, name)
  \/ \E level \in SinkLevels : InitWithLevel(t, level)

ErrorCall(t) == \E room \in {"null", "small", "enough"} : GetErrorMessage(t, room)

TextCall(t) ==
  \/ \E level \in Levels, bad \in BOOLEAN : LogMessage(t, level, bad)
  \/ \E id \in Ids : FetchLogBuffer(t, id)

-----------------------------------------------------------------------------
(* Properties.                                                             *)

\* An error message is given to the thread whose call failed and to no other,
\* never a second time, and never after a later one.
ErrorsGoToTheirThreadOnce ==
  \A t \in Threads : \A k \in DOMAIN told[t] :
    /\ told[t][k].of = t
    /\ \A j \in 1..(k - 1) : told[t][j].n < told[t][k].n

\* The process is aborted by a logger only if the log file could be opened once
\* and no more: what attach accepted, apply can build.
SurvivesItsLogger == alive \/ vanished

\* What is logged to a buffer is fetched from that buffer once, in the order in
\* which it was written, unless a fetch came upon text it could not hand over.
LogTextIsKept ==
  \A id \in Ids :
    Within(wrote[id], Nat \ lost) = delivered[id] \o Numbers(buffer[id])
=============================================================================
