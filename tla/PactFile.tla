------------------------------ MODULE PactFile ------------------------------
(***************************************************************************)
(* Writing and reading one pact file: write_pact and read_pact of          *)
(* pact_models/src/pact.rs, over the lock helpers of                       *)
(* pact_models/src/file_utils.rs.                                          *)
(*                                                                         *)
(* A writer is a thread of some test process.  WRITE_LOCK is a static      *)
(* mutex, so it serialises the writers of one process only; the advisory   *)
(* lock taken through fs2 is per open file, so it serialises everybody but *)
(* only for as long as one closure runs.  A pact is a partial function     *)
(* from interaction keys (description and provider states) to bodies;      *)
(* what merge does to the sequences of interactions is in PactMerge.       *)
(***************************************************************************)
EXTENDS Naturals, PactContent

CONSTANTS
  Writers,            \* threads that call write_pact
  Readers,            \* callers of read_pact
  Procs,              \* operating system processes
  ProcOf,             \* the process a writer belongs to
  PactOf,             \* the pact that a writer holds in memory
  Overwriters,        \* the writers that pass overwrite = true
  Attempts,           \* the "3" passed to the lock helpers
  MaxFaults,          \* bound on crashes and failed writes in one behaviour
  InitialPact,        \* the file before the first write, or NoPact
  NoPact, Broken, NoOne

ASSUME WritersAssumption ==
  /\ ProcOf \in [Writers -> Procs]
  /\ PactOf \in [Writers -> Pact]
  /\ Overwriters \in SUBSET Writers
  /\ NoOne \notin Writers \cup Readers
  /\ Writers \cap Readers = {}

ASSUME FileAssumption ==
  /\ InitialPact \in Pact \cup {NoPact}
  /\ NoPact \notin Pact /\ Broken \notin Pact /\ NoPact # Broken

ASSUME BoundsAssumption == Attempts \in Nat \ {0} /\ MaxFaults \in Nat

VARIABLES
  file,       \* what is on the disk
  pc,         \* where each writer and each reader is
  mem,        \* the pact a writer is about to serialise
  attempt,    \* failed attempts at the current file lock
  writeLock,  \* per process: the holder of WRITE_LOCK
  shared,     \* holders of the shared file lock
  exclusive,  \* holder of the exclusive file lock
  faults,     \* crashes and failed writes so far
  result,     \* what the last write_pact of each writer returned
  committed,  \* history: keys of writes that returned Ok, since an overwrite
  before,     \* history: the content that the last truncation threw away
  torn,       \* history: a writer gave up after it had truncated the file
  raced       \* history: File::create came in the middle of another's update

vars == <<file, pc, mem, attempt, writeLock, shared, exclusive,
          faults, result, committed, before, torn, raced>>

locks == <<writeLock, shared, exclusive>>
history == <<committed, before, torn, raced>>

Full(p) == [kind |-> "full", pact |-> p]
Empty   == [kind |-> "empty", pact |-> NoPact]
Corrupt == [kind |-> "corrupt", pact |-> NoPact]
Absent  == [kind |-> "absent", pact |-> NoPact]

Init ==
  /\ file = IF InitialPact = NoPact THEN Absent ELSE Full(InitialPact)
  /\ pc = [t \in Writers \cup Readers |-> "idle"]
  /\ mem = PactOf
  /\ attempt = [t \in Writers \cup Readers |-> 0]
  /\ writeLock = [p \in Procs |-> NoOne]
  /\ shared = {}
  /\ exclusive = NoOne
  /\ faults = 0
  /\ result = [w \in Writers |-> "none"]
  /\ committed = IF InitialPact = NoPact THEN {} ELSE DOMAIN InitialPact
  /\ before = Absent
  /\ torn = FALSE
  /\ raced = FALSE

Goto(t, l) == pc' = [pc EXCEPT ![t] = l]

-----------------------------------------------------------------------------
(* The writers.                                                            *)

\* write_pact is called: the directory is created, nothing is locked yet.
Call(w) ==
  /\ pc[w] = "idle"
  /\ Goto(w, "mutex")
  /\ UNCHANGED <<file, mem, attempt, locks, faults, result, history>>

\* Mutant of TakeWriteLock: a writer does not wait for the others.
MTakeWriteLock(w) ==
  /\ pc[w] = "mutex"
  /\ writeLock' = [writeLock EXCEPT ![ProcOf[w]] = w]
  /\ Goto(w, "check")
  /\ UNCHANGED <<file, mem, attempt, shared, exclusive, faults,
                 result, history>>

\* WRITE_LOCK.lock()
TakeWriteLock(w) ==
  /\ pc[w] = "mutex"
  /\ writeLock[ProcOf[w]] = NoOne
  /\ writeLock' = [writeLock EXCEPT ![ProcOf[w]] = w]
  /\ Goto(w, "check")
  /\ UNCHANGED <<file, mem, attempt, shared, exclusive, faults,
                 result, history>>

\* if !overwrite && path.exists(): open the file for the merge, or go on to
\* create it.
CheckExists(w) ==
  /\ pc[w] = "check"
  /\ Goto(w, IF w \notin Overwriters /\ file.kind # "absent" THEN "rlock" ELSE "create")
  /\ attempt' = [attempt EXCEPT ![w] = 0]
  /\ mem' = [mem EXCEPT ![w] = PactOf[w]]
  /\ UNCHANGED <<file, locks, faults, result, history>>

\* write_pact returns and drops its guards.
Return(w, res) ==
  /\ Goto(w, "done")
  /\ result' = [result EXCEPT ![w] = res]
  /\ writeLock' = [writeLock EXCEPT ![ProcOf[w]] = NoOne]

\* with_read_lock_for_open_file: try_lock_shared succeeds ...
LockShared(w) ==
  /\ pc[w] = "rlock"
  /\ exclusive = NoOne
  /\ shared' = shared \cup {w}
  /\ Goto(w, "read")
  /\ UNCHANGED <<file, mem, attempt, writeLock, exclusive, faults,
                 result, history>>

\* ... or fails, and after the last attempt write_pact returns the error.
LockSharedFails(w) ==
  /\ pc[w] = "rlock"
  /\ exclusive # NoOne
  /\ attempt' = [attempt EXCEPT ![w] = @ + 1]
  /\ IF attempt[w] + 1 < Attempts
       THEN UNCHANGED <<pc, result, writeLock>>
       ELSE Return(w, "err")
  /\ UNCHANGED <<file, mem, shared, exclusive, faults, history>>

\* The closure reads the text, the shared lock is released, the text is
\* parsed and merged.  Text that is not a pact, or a conflict, is an error.
ReadAndMerge(w) ==
  /\ pc[w] = "read"
  /\ shared' = shared \ {w}
  /\ attempt' = [attempt EXCEPT ![w] = 0]
  /\ IF file.kind = "full" /\ ~MergeConflict(PactOf[w], file.pact)
       THEN /\ mem' = [mem EXCEPT ![w] = Merge(PactOf[w], file.pact)]
            /\ Goto(w, "wlock")
            /\ UNCHANGED <<result, writeLock>>
       ELSE /\ Return(w, "err")
            /\ UNCHANGED mem
  /\ UNCHANGED <<file, exclusive, faults, history>>

\* Has read or created the file and has not written it yet.
MidUpdate(w) == pc[w] \in {"wlock", "wlockNew", "truncate", "write"}

\* File::create(path): the file is truncated, and no file lock is held.
Create(w) ==
  /\ pc[w] = "create"
  /\ file' = Empty
  /\ before' = file
  /\ committed' = IF w \in Overwriters THEN {} ELSE committed
  /\ raced' = (raced \/ \E v \in Writers \ {w} : MidUpdate(v))
  /\ Goto(w, "wlockNew")
  /\ UNCHANGED <<mem, attempt, locks, faults, result, torn>>

\* Mutant of LockExclusive: readers are not taken notice of.
MLockExclusive(w) ==
  /\ pc[w] \in {"wlock", "wlockNew"}
  /\ exclusive = NoOne
  /\ exclusive' = w
  /\ Goto(w, IF pc[w] = "wlock" THEN "truncate" ELSE "write")
  /\ UNCHANGED <<file, mem, attempt, writeLock, shared, faults,
                 result, history>>

\* with_write_lock: try_lock_exclusive succeeds ...
LockExclusive(w) ==
  /\ pc[w] \in {"wlock", "wlockNew"}
  /\ exclusive = NoOne /\ shared = {}
  /\ exclusive' = w
  /\ Goto(w, IF pc[w] = "wlock" THEN "truncate" ELSE "write")
  /\ UNCHANGED <<file, mem, attempt, writeLock, shared, faults,
                 result, history>>

\* Mutant of LockExclusiveFails: the attempts are not counted.
MLockExclusiveFails(w) ==
  /\ pc[w] \in {"wlock", "wlockNew"}
  /\ exclusive # NoOne \/ shared # {}
  /\ UNCHANGED vars

\* ... or fails; giving up after Create leaves the truncated file behind.
LockExclusiveFails(w) ==
  /\ pc[w] \in {"wlock", "wlockNew"}
  /\ exclusive # NoOne \/ shared # {}
  /\ attempt' = [attempt EXCEPT ![w] = @ + 1]
  /\ IF attempt[w] + 1 < Attempts
       THEN UNCHANGED <<pc, result, writeLock, torn>>
       ELSE /\ Return(w, "err")
            /\ torn' = (torn \/ pc[w] = "wlockNew")
  /\ UNCHANGED <<file, mem, shared, exclusive, faults, committed, before, raced>>

\* f.set_len(0) and f.seek(0) of the merge.
Truncate(w) ==
  /\ pc[w] = "truncate"
  /\ file' = Empty
  /\ before' = file
  /\ Goto(w, "write")
  /\ UNCHANGED <<mem, attempt, locks, faults, result, committed, torn, raced>>

\* f.write_all at offset 0.  Nobody truncates here, so text that another
\* writer left behind and that is longer keeps its tail.
Write(w) ==
  /\ pc[w] = "write"
  /\ file' \in {Full(mem[w])} \cup
               (IF file.kind = "empty" THEN {} ELSE {Corrupt})
  /\ Goto(w, "unlock")
  /\ UNCHANGED <<mem, attempt, locks, faults, result, history>>

\* The exclusive lock is released and write_pact returns Ok.
Unlock(w) ==
  /\ pc[w] = "unlock"
  /\ exclusive' = NoOne
  /\ committed' = committed \cup DOMAIN PactOf[w]
  /\ Return(w, "ok")
  /\ UNCHANGED <<file, mem, attempt, shared, faults, before, torn, raced>>

-----------------------------------------------------------------------------
(* Faults of the environment.                                              *)

\* A write that does not finish may leave a part of the text behind.
Unfinished(interrupted) == IF interrupted THEN {file, Corrupt} ELSE {file}

\* set_len or write_all fails (a full disk): the closure's error is returned.
WriteFails(w) ==
  /\ pc[w] \in {"truncate", "write"}
  /\ faults < MaxFaults
  /\ faults' = faults + 1
  /\ exclusive' = NoOne
  /\ torn' = (torn \/ pc[w] = "write")
  /\ file' \in Unfinished(pc[w] = "write")
  /\ Return(w, "err")
  /\ UNCHANGED <<mem, attempt, shared, committed, before, raced>>

\* Holding a truncated file: the write is not finished.
InWindow(w) == pc[w] \in {"wlockNew", "write"}

\* A process dies; the system closes its files, and it is started again.
Crash(p) ==
  LET dead == {w \in Writers : ProcOf[w] = p} IN
  /\ faults < MaxFaults
  /\ faults' = faults + 1
  /\ \E w \in dead : pc[w] \notin {"idle", "done"}
  /\ torn' = (torn \/ \E w \in dead : InWindow(w))
  /\ file' \in Unfinished(\E w \in dead : pc[w] = "write")
  /\ pc' = [t \in Writers \cup Readers |-> IF t \in dead THEN "idle" ELSE pc[t]]
  /\ writeLock' = [writeLock EXCEPT ![p] = NoOne]
  /\ shared' = shared \ dead
  /\ exclusive' = IF exclusive \in dead THEN NoOne ELSE exclusive
  /\ UNCHANGED <<mem, attempt, result, committed, before, raced>>

-----------------------------------------------------------------------------
(* The readers: read_pact, which takes no part in WRITE_LOCK.              *)

\* File::open(file)
Open(r) ==
  /\ pc[r] = "idle"
  /\ file.kind # "absent"
  /\ Goto(r, "rlock")
  /\ attempt' = [attempt EXCEPT ![r] = 0]
  /\ UNCHANGED <<file, mem, locks, faults, result, history>>

\* try_lock_shared, and giving up after the last attempt.
ReaderLock(r) ==
  /\ pc[r] = "rlock"
  /\ IF exclusive = NoOne
       THEN /\ shared' = shared \cup {r}
            /\ Goto(r, "read")
            /\ UNCHANGED attempt
       ELSE /\ attempt' = [attempt EXCEPT ![r] = @ + 1]
            /\ Goto(r, IF attempt[r] + 1 < Attempts THEN "rlock" ELSE "idle")
            /\ UNCHANGED shared
  /\ UNCHANGED <<file, mem, writeLock, exclusive, faults, result, history>>

\* The text is read and the lock released; the caller may read again.
ReaderRead(r) ==
  /\ pc[r] = "read"
  /\ shared' = shared \ {r}
  /\ Goto(r, "idle")
  /\ UNCHANGED <<file, mem, attempt, writeLock, exclusive, faults,
                 result, history>>

-----------------------------------------------------------------------------
WriterStep(w) ==
  \/ TakeWriteLock(w) \/ CheckExists(w)
  \/ LockShared(w) \/ LockSharedFails(w) \/ ReadAndMerge(w)
  \/ Create(w)
  \/ LockExclusive(w) \/ LockExclusiveFails(w)
  \/ Truncate(w) \/ Write(w) \/ Unlock(w)

ReaderStep(r) == Open(r) \/ ReaderLock(r) \/ ReaderRead(r)

Next ==
  \/ \E w \in Writers : Call(w) \/ WriterStep(w) \/ WriteFails(w)
  \/ \E p \in Procs : Crash(p)
  \/ \E r \in Readers : ReaderStep(r)

Spec == Init /\ [][Next]_vars

\* A thread that is inside write_pact or read_pact keeps being scheduled;
\* nobody has to call either.
Fairness ==
  /\ \A w \in Writers : WF_vars(WriterStep(w))
  /\ \A r \in Readers : WF_vars(ReaderLock(r) \/ ReaderRead(r))

FairSpec == Spec /\ Fairness

-----------------------------------------------------------------------------
(* Properties.                                                             *)

WriterPc == {"idle", "mutex", "check", "rlock", "read", "create", "wlock",
             "wlockNew", "truncate", "write", "unlock", "done"}
ReaderPc == {"idle", "rlock", "read"}

Content == {Empty, Corrupt, Absent} \cup {Full(p) : p \in Pact}

\* Types: every variable of the writers, the readers and the file stays in
\* its set.
TypeOK ==
  /\ file \in Content /\ before \in Content
  /\ pc \in [Writers \cup Readers -> WriterPc]
  /\ \A r \in Readers : pc[r] \in ReaderPc
  /\ mem \in [Writers -> Pact]
  /\ attempt \in [Writers \cup Readers -> Nat]
  /\ writeLock \in [Procs -> Writers \cup {NoOne}]
  /\ shared \in SUBSET (Writers \cup Readers)
  /\ exclusive \in Writers \cup {NoOne}
  /\ faults \in Nat
  /\ result \in [Writers -> {"none", "ok", "err"}]
  /\ committed \in SUBSET Keys
  /\ torn \in BOOLEAN
  /\ raced \in BOOLEAN

\* Once write_pact has returned Ok, its interactions stay in the file until
\* somebody overwrites it: "the two pacts will be merged together unless
\* overwrite is true".
NoLostInteraction ==
  file.kind = "full" => committed \subseteq DOMAIN file.pact

\* The file is left without a pact only while a writer is between truncating
\* it and writing it, or after a writer gave up there (WriteFails, Crash, or
\* LockExclusiveFails after Create).
EmptyOnlyInWindow ==
  file.kind \in {"empty", "corrupt"} =>
    torn \/ \E w \in Writers : InWindow(w)

\* Whatever the processes do, one that holds the shared lock finds no text that
\* is not a pact, except through File::create, which truncates before it locks:
\* a writer is between the two, or one created the file in the middle of the
\* update of another and they wrote over each other; or after one gave up.
TornOnlyByCreate ==
  (file.kind \in {"empty", "corrupt"} /\ shared # {}) =>
    torn \/ raced \/ \E w \in Writers : pc[w] = "wlockNew"

\* What the file stands for: while a writer is in its window, what it held
\* before the truncation.
Meaning(content) ==
  CASE content.kind = "full"   -> content.pact
    [] content.kind = "absent" -> NoPact
    [] OTHER                   -> Broken

storeBar ==
  Meaning(IF \E w \in Writers : InWindow(w) THEN before ELSE file)

Store == INSTANCE PactStore WITH store <- storeBar

\* The writers of one process implement the atomic pact store: every
\* write_pact is one merge, one overwrite, nothing, or it breaks the file.
ImplementsPactStore == Store!StoreSpec

Critical == WriterPc \ {"idle", "mutex", "done"}

\* The locks are held exactly where the code is between taking and releasing
\* them, for any number of processes.
LockInv ==
  /\ \A w \in Writers : pc[w] \in Critical => writeLock[ProcOf[w]] = w
  /\ \A w \in Writers : exclusive = w <=> pc[w] \in {"truncate", "write", "unlock"}
  /\ \A t \in Writers \cup Readers : t \in shared <=> pc[t] = "read"
  /\ exclusive # NoOne => shared = {}

\* What a writer is about to write, from what the file held before.
FreshWrite(w) == mem[w] = PactOf[w] /\ (w \in Overwriters \/ before = Absent)

MergeWrite(w, content) ==
  /\ w \notin Overwriters
  /\ content.kind = "full"
  /\ ~MergeConflict(PactOf[w], content.pact)
  /\ mem[w] = Merge(PactOf[w], content.pact)

\* How far each writer's update has come.
UpdateInv ==
  \A w \in Writers :
    /\ pc[w] \in {"rlock", "read"} => w \notin Overwriters /\ file # Absent
    /\ pc[w] = "create" => mem[w] = PactOf[w] /\ (w \in Overwriters \/ file = Absent)
    /\ pc[w] \in {"wlock", "truncate"} => MergeWrite(w, file)
    /\ pc[w] = "wlockNew" => file = Empty /\ FreshWrite(w)
    /\ pc[w] = "write" => file = Empty /\ (FreshWrite(w) \/ MergeWrite(w, before))
    /\ pc[w] = "unlock" => file = Full(mem[w]) /\ DOMAIN PactOf[w] \subseteq DOMAIN mem[w]

\* The file always holds what was committed, is about to, or was given up.
FileInv ==
  /\ file = Corrupt => torn
  /\ file = Empty => torn \/ \E w \in Writers : InWindow(w)
  /\ file.kind = "full" => committed \subseteq DOMAIN file.pact
  /\ file = Absent => committed = {}
  /\ \A w \in Writers : InWindow(w) => committed \subseteq DOMAIN mem[w]

\* The inductive invariant of the writers of one process: WRITE_LOCK makes
\* the read, the merge and the write of write_pact one update.
OneProcessInv == LockInv /\ UpdateInv /\ FileInv

\* All there is to know of one process: it is inductive, with the types.
WriterInv == TypeOK /\ OneProcessInv

\* Writes of one process keep what was written: a committed interaction stays,
\* and the file is left without a pact only by a writer that gave up.
KeepsTheFile == NoLostInteraction /\ EmptyOnlyInWindow

\* Why a text is not a pact, for any number of processes: a writer that created
\* the file is alone with it until it writes, unless there was a race.
TextInv ==
  /\ file = Corrupt => torn \/ raced
  /\ file = Empty => torn \/ \E w \in Writers : InWindow(w)
  /\ ~raced => \A w \in Writers :
       /\ pc[w] \in {"wlockNew", "write"} => file = Empty
       /\ pc[w] = "wlockNew" => \A v \in Writers \ {w} : ~MidUpdate(v)

\* All the writers are threads of one process.
SingleProcess == \A v, w \in Writers : ProcOf[v] = ProcOf[w]

\* Every call of write_pact returns: bounded lock attempts mean that readers
\* that keep the file locked can make it fail, never make it wait for ever.
EveryWriteReturns ==
  \A w \in Writers : (pc[w] = "mutex") ~> (pc[w] \in {"done", "idle"})
=============================================================================
