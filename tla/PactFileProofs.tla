--------------------------- MODULE PactFileProofs ---------------------------
(***************************************************************************)
(* Proofs about PactFile for any number of writers, readers, interactions  *)
(* and lock attempts.                                                      *)
(***************************************************************************)
EXTENDS PactFile, TLAPS

-----------------------------------------------------------------------------
(* The operators on pacts.                                                 *)

\* The content of a pact file is a function on some of the keys.
LEMMA PactIsFunction ==
  \A p : p \in Pact <=> \E D \in SUBSET Keys : p \in [D -> Bodies]
BY DEF Pact

\* merge (pact_models, v4/pact.rs and sync_pact.rs) makes a pact of two
\* pacts, and drops the key of no interaction of either.
LEMMA MergeKeepsKeys ==
  ASSUME NEW p \in Pact, NEW q \in Pact
  PROVE  /\ Merge(p, q) \in Pact
         /\ DOMAIN Merge(p, q) = (DOMAIN p) \cup (DOMAIN q)
<1>1. PICK D \in SUBSET Keys : p \in [D -> Bodies]
  BY PactIsFunction
<1>2. PICK E \in SUBSET Keys : q \in [E -> Bodies]
  BY PactIsFunction
<1>3. Merge(p, q) \in [D \cup E -> Bodies]
  BY <1>1, <1>2 DEF Merge
<1>4. D \cup E \in SUBSET Keys
  OBVIOUS
<1> QED
  BY <1>1, <1>2, <1>3, <1>4, PactIsFunction DEF Merge

\* The keys of a pact are keys.
LEMMA PactDomain ==
  ASSUME NEW p \in Pact PROVE DOMAIN p \in SUBSET Keys
BY PactIsFunction

\* What may be on the disk, by kind.
LEMMA ContentKinds ==
  \A c : c \in Content <=>
           \/ c = Empty \/ c = Corrupt \/ c = Absent
           \/ \E p \in Pact : c = Full(p)
BY DEF Content

\* A parsable file holds a pact.
LEMMA FullHoldsPact ==
  ASSUME NEW c \in Content, c.kind = "full"
  PROVE  c.pact \in Pact /\ c = Full(c.pact)
BY ContentKinds DEF Empty, Corrupt, Absent, Full

\* The four kinds of content are different.
LEMMA KindsDiffer ==
  /\ Empty \in Content /\ Corrupt \in Content /\ Absent \in Content
  /\ \A p \in Pact : Full(p) \in Content /\ Full(p).kind = "full" /\ Full(p).pact = p
  /\ Empty.kind = "empty" /\ Corrupt.kind = "corrupt" /\ Absent.kind = "absent"
BY DEF Content, Empty, Corrupt, Absent, Full

-----------------------------------------------------------------------------
(* Type correctness.                                                       *)

LEMMA InitTypeOK == Init => TypeOK
<1> SUFFICES ASSUME Init PROVE TypeOK
  OBVIOUS
<1>1. file \in Content /\ before \in Content
  BY KindsDiffer, FileAssumption DEF Init
<1>2. committed \in SUBSET Keys
  BY FileAssumption, PactDomain DEF Init
<1> QED
  BY <1>1, <1>2, WritersAssumption, BoundsAssumption
  DEF Init, TypeOK, WriterPc, ReaderPc

\* Every writer step of write_pact keeps the types.
LEMMA WriterTypeOK ==
  ASSUME TypeOK, NEW w \in Writers,
         Call(w) \/ WriterStep(w) \/ WriteFails(w)
  PROVE  TypeOK'
<1> USE WritersAssumption, BoundsAssumption
<1>r. w \notin Readers /\ w \in Writers \cup Readers /\ ProcOf[w] \in Procs
  OBVIOUS
<1>1. CASE Call(w)
  BY <1>1, <1>r DEF Call, TypeOK, Goto, locks, history, WriterPc, ReaderPc
<1>2. CASE TakeWriteLock(w)
  BY <1>2, <1>r DEF TakeWriteLock, TypeOK, Goto, history, WriterPc, ReaderPc
<1>3. CASE CheckExists(w)
  BY <1>3, <1>r DEF CheckExists, TypeOK, Goto, locks, history, WriterPc, ReaderPc
<1>4. CASE LockShared(w)
  BY <1>4, <1>r DEF LockShared, TypeOK, Goto, history, WriterPc, ReaderPc
<1>5. CASE LockSharedFails(w)
  BY <1>5, <1>r DEF LockSharedFails, Return, TypeOK, Goto, history, WriterPc, ReaderPc
<1>6. CASE ReadAndMerge(w)
  <2>0. PactOf[w] \in Pact /\ (file.kind = "full" => Merge(PactOf[w], file.pact) \in Pact)
    BY MergeKeepsKeys, FullHoldsPact DEF TypeOK
  <2>1. mem' \in [Writers -> Pact]
    BY <1>6, <2>0 DEF ReadAndMerge, TypeOK
  <2> QED
    BY <1>6, <1>r, <2>1 DEF ReadAndMerge, Return, TypeOK, Goto, history, WriterPc, ReaderPc
<1>7. CASE Create(w)
  <2>1. raced' \in BOOLEAN
    BY <1>7, Zenon DEF Create, TypeOK
  <2> QED
    BY <1>7, <1>r, <2>1, KindsDiffer DEF Create, TypeOK, Goto, locks, WriterPc, ReaderPc
<1>8. CASE LockExclusive(w)
  BY <1>8, <1>r DEF LockExclusive, TypeOK, Goto, history, WriterPc, ReaderPc
<1>9. CASE LockExclusiveFails(w)
  <2>1. torn' \in BOOLEAN
    BY <1>9, Zenon DEF LockExclusiveFails, TypeOK
  <2>2. CASE attempt[w] + 1 < Attempts
    BY <1>9, <1>r, <2>1, <2>2 DEF LockExclusiveFails, TypeOK
  <2>3. CASE ~(attempt[w] + 1 < Attempts)
    BY <1>9, <1>r, <2>1, <2>3 DEF LockExclusiveFails, Return, TypeOK, Goto, WriterPc, ReaderPc
  <2> QED
    BY <2>2, <2>3
<1>10. CASE Truncate(w)
  BY <1>10, <1>r, KindsDiffer DEF Truncate, TypeOK, Goto, locks, WriterPc, ReaderPc
<1>11. CASE Write(w)
  <2>1. file' \in Content
    BY <1>11, KindsDiffer DEF Write, TypeOK
  <2> QED
    BY <1>11, <1>r, <2>1 DEF Write, TypeOK, Goto, locks, history, WriterPc, ReaderPc
<1>12. CASE Unlock(w)
  <2>1. committed' \in SUBSET Keys
    BY <1>12, PactDomain DEF Unlock, TypeOK
  <2> QED
    BY <1>12, <1>r, <2>1 DEF Unlock, Return, TypeOK, Goto, WriterPc, ReaderPc
<1>13. CASE WriteFails(w)
  <2>1. file' \in Content
    BY <1>13 DEF WriteFails, Unfinished, TypeOK, Content
  <2> QED
    BY <1>13, <1>r, <2>1 DEF WriteFails, Return, TypeOK, Goto, WriterPc, ReaderPc
<1> QED
  BY <1>1, <1>2, <1>3, <1>4, <1>5, <1>6, <1>7, <1>8, <1>9, <1>10, <1>11, <1>12,
     <1>13 DEF WriterStep

\* So do a crash and a reader.
LEMMA OtherTypeOK ==
  ASSUME TypeOK,
         (\E p \in Procs : Crash(p)) \/ (\E r \in Readers : ReaderStep(r))
  PROVE  TypeOK'
<1> USE WritersAssumption, BoundsAssumption
<1>1. CASE \E p \in Procs : Crash(p)
  <2>1. file' \in Content
    BY <1>1 DEF Crash, Unfinished, TypeOK, Content
  <2> QED
    BY <1>1, <2>1 DEF Crash, TypeOK, WriterPc, ReaderPc
<1>2. CASE \E r \in Readers : ReaderStep(r)
  <2> SUFFICES ASSUME NEW r \in Readers, ReaderStep(r) PROVE TypeOK'
    BY <1>2
  <2>1. CASE Open(r)
    BY <2>1 DEF Open, TypeOK, Goto, locks, history, WriterPc, ReaderPc
  <2>2. CASE ReaderLock(r)
    BY <2>2 DEF ReaderLock, TypeOK, Goto, locks, history, WriterPc, ReaderPc
  <2>3. CASE ReaderRead(r)
    BY <2>3 DEF ReaderRead, TypeOK, Goto, locks, history, WriterPc, ReaderPc
  <2> QED
    BY <2>1, <2>2, <2>3 DEF ReaderStep
<1> QED
  BY <1>1, <1>2

\* Type correctness of the pact file protocol, for any writers and readers.
THEOREM TypeCorrect == Spec => []TypeOK
<1>1. TypeOK /\ [Next]_vars => TypeOK'
  <2> SUFFICES ASSUME TypeOK, [Next]_vars PROVE TypeOK'
    OBVIOUS
  <2>1. CASE Next
    BY <2>1, WriterTypeOK, OtherTypeOK DEF Next
  <2>2. CASE UNCHANGED vars
    BY <2>2 DEF vars, TypeOK
  <2> QED
    BY <2>1, <2>2
<1> QED
  BY <1>1, InitTypeOK, PTL DEF Spec

-----------------------------------------------------------------------------
(* The locks, for any number of processes.                                 *)

\* Every writer step keeps LockInv: no early return of write_pact leaves with
\* a lock, and no path writes without one.
LEMMA WriterLockInv ==
  ASSUME TypeOK, LockInv, NEW w \in Writers,
         Call(w) \/ WriterStep(w) \/ WriteFails(w)
  PROVE  LockInv'
<1> USE WritersAssumption
<1>r. /\ w \notin Readers /\ w \in Writers \cup Readers
      /\ ProcOf[w] \in Procs /\ w # NoOne
  OBVIOUS
<1> DEFINE Pcs == [Writers \cup Readers -> WriterPc]
<1>t. /\ pc \in Pcs /\ writeLock \in [Procs -> Writers \cup {NoOne}]
      /\ shared \in SUBSET (Writers \cup Readers)
      /\ exclusive \in Writers \cup {NoOne}
  BY DEF TypeOK
<1>1. CASE Call(w)
  BY <1>1, <1>r, <1>t DEF Call, LockInv, Goto, locks, Critical, WriterPc
<1>2. CASE TakeWriteLock(w)
  BY <1>2, <1>r, <1>t DEF TakeWriteLock, LockInv, Goto, Critical, WriterPc
<1>3. CASE CheckExists(w)
  BY <1>3, <1>r, <1>t DEF CheckExists, LockInv, Goto, locks, Critical, WriterPc
<1>4. CASE LockShared(w)
  BY <1>4, <1>r, <1>t DEF LockShared, LockInv, Goto, Critical, WriterPc
<1>5. CASE LockSharedFails(w)
  BY <1>5, <1>r, <1>t DEF LockSharedFails, Return, LockInv, Goto, Critical, WriterPc
<1>6. CASE ReadAndMerge(w)
  BY <1>6, <1>r, <1>t DEF ReadAndMerge, Return, LockInv, Goto, Critical, WriterPc
<1>7. CASE Create(w)
  BY <1>7, <1>r, <1>t DEF Create, LockInv, Goto, locks, Critical, WriterPc
<1>8. CASE LockExclusive(w)
  BY <1>8, <1>r, <1>t DEF LockExclusive, LockInv, Goto, Critical, WriterPc
<1>9. CASE LockExclusiveFails(w)
  BY <1>9, <1>r, <1>t DEF LockExclusiveFails, Return, LockInv, Goto, Critical, WriterPc
<1>10. CASE Truncate(w)
  BY <1>10, <1>r, <1>t DEF Truncate, LockInv, Goto, locks, Critical, WriterPc
<1>11. CASE Write(w)
  BY <1>11, <1>r, <1>t DEF Write, LockInv, Goto, locks, Critical, WriterPc
<1>12. CASE Unlock(w)
  BY <1>12, <1>r, <1>t DEF Unlock, Return, LockInv, Goto, Critical, WriterPc
<1>13. CASE WriteFails(w)
  BY <1>13, <1>r, <1>t DEF WriteFails, Return, LockInv, Goto, Critical, WriterPc
<1> QED
  BY <1>1, <1>2, <1>3, <1>4, <1>5, <1>6, <1>7, <1>8, <1>9, <1>10, <1>11, <1>12,
     <1>13 DEF WriterStep

\* A crash takes the locks of the dead process with it, and readers only
\* touch the shared lock.
LEMMA OtherLockInv ==
  ASSUME TypeOK, LockInv,
         (\E p \in Procs : Crash(p)) \/ (\E r \in Readers : ReaderStep(r))
  PROVE  LockInv'
<1> USE WritersAssumption
<1>1. CASE \E p \in Procs : Crash(p)
  BY <1>1 DEF Crash, TypeOK, LockInv, Critical, WriterPc
<1>2. CASE \E r \in Readers : ReaderStep(r)
  <2> SUFFICES ASSUME NEW r \in Readers, ReaderStep(r) PROVE LockInv'
    BY <1>2
  <2>1. CASE Open(r)
    BY <2>1 DEF Open, TypeOK, LockInv, Goto, locks, Critical, WriterPc
  <2>2. CASE ReaderLock(r)
    BY <2>2 DEF ReaderLock, TypeOK, LockInv, Goto, Critical, WriterPc
  <2>3. CASE ReaderRead(r)
    BY <2>3 DEF ReaderRead, TypeOK, LockInv, Goto, Critical, WriterPc
  <2> QED
    BY <2>1, <2>2, <2>3 DEF ReaderStep
<1> QED
  BY <1>1, <1>2

\* The lock discipline of write_pact and read_pact: it needs no assumption on
\* the processes, since the file lock is per open file.
THEOREM LocksAreHeld == Spec => []LockInv
<1>1. Init => LockInv
  BY WritersAssumption DEF Init, LockInv, Critical, WriterPc
<1>2. TypeOK /\ LockInv /\ [Next]_vars => LockInv'
  <2> SUFFICES ASSUME TypeOK, LockInv, [Next]_vars PROVE LockInv'
    OBVIOUS
  <2>1. CASE Next
    BY <2>1, WriterLockInv, OtherLockInv DEF Next
  <2>2. CASE UNCHANGED vars
    BY <2>2 DEF vars, LockInv
  <2> QED
    BY <2>1, <2>2
<1> QED
  BY <1>1, <1>2, TypeCorrect, PTL DEF Spec

-----------------------------------------------------------------------------
(* The writers of one process.                                             *)

\* WRITE_LOCK is a mutex: with one process there is one writer between taking
\* it and returning.
LEMMA OneWriter ==
  ASSUME SingleProcess, LockInv,
         NEW v \in Writers, NEW w \in Writers, v # w, pc[w] \in Critical
  PROVE  pc[v] \notin Critical
BY DEF SingleProcess, LockInv

\* A writer's steps before and after its update leave the file alone.
LEMMA QuietWriterInv ==
  ASSUME SingleProcess, TypeOK, LockInv, UpdateInv, FileInv, NEW w \in Writers,
         Call(w) \/ TakeWriteLock(w) \/ CheckExists(w) \/ LockShared(w)
           \/ LockSharedFails(w) \/ LockExclusive(w)
  PROVE  UpdateInv' /\ FileInv'
<1> USE WritersAssumption
<1>r. w \notin Readers /\ w \in Writers \cup Readers
  OBVIOUS
<1>k. file \in Content /\ before \in Content /\ pc \in [Writers \cup Readers -> WriterPc]
      /\ mem \in [Writers -> Pact]
  BY DEF TypeOK
<1>a. file.kind = "absent" => file = Absent
  BY <1>k, ContentKinds DEF Empty, Corrupt, Absent, Full
<1>b. Absent.kind = "absent"
  BY DEF Absent
<1>1. CASE Call(w)
  BY <1>1, <1>r, <1>k DEF Call, Goto, history, UpdateInv, FileInv, InWindow,
     FreshWrite, MergeWrite
<1>2. CASE TakeWriteLock(w)
  BY <1>2, <1>r, <1>k DEF TakeWriteLock, Goto, history, UpdateInv, FileInv, InWindow,
     FreshWrite, MergeWrite
<1>3. CASE CheckExists(w)
  <2>1. \A v \in Writers : v # w => pc[v] \notin Critical /\ pc'[v] = pc[v]
    BY <1>3, <1>r, <1>k, OneWriter DEF CheckExists, Goto, Critical, WriterPc
  <2>2. UpdateInv'
    BY <1>3, <1>r, <1>k, <1>a, <1>b, <2>1 DEF CheckExists, Goto, history, UpdateInv, Critical,
       WriterPc, FreshWrite, MergeWrite
  <2>3. FileInv'
    BY <1>3, <1>r, <1>k, <2>1 DEF CheckExists, Goto, history, FileInv, InWindow,
       Critical, WriterPc
  <2> QED
    BY <2>2, <2>3
<1>4. CASE LockShared(w)
  BY <1>4, <1>r, <1>k DEF LockShared, Goto, history, UpdateInv, FileInv, InWindow,
     FreshWrite, MergeWrite
<1>5. CASE LockSharedFails(w)
  BY <1>5, <1>r, <1>k DEF LockSharedFails, Return, Goto, history, UpdateInv, FileInv, InWindow,
     FreshWrite, MergeWrite
<1>6. CASE LockExclusive(w)
  <2>1. UpdateInv'
    BY <1>6, <1>r, <1>k DEF LockExclusive, Goto, history, UpdateInv, FreshWrite, MergeWrite
  <2>2. FileInv'
    BY <1>6, <1>r, <1>k DEF LockExclusive, Goto, history, FileInv, InWindow
  <2> QED
    BY <2>1, <2>2
<1> QED
  BY <1>1, <1>2, <1>3, <1>4, <1>5, <1>6

\* The steps of the update itself: reading and merging, truncating, writing,
\* and every way of giving up.
LEMMA UpdateStepInv ==
  ASSUME SingleProcess, TypeOK, LockInv, UpdateInv, FileInv, NEW w \in Writers,
         ReadAndMerge(w) \/ Create(w) \/ LockExclusiveFails(w) \/ Truncate(w)
           \/ Write(w) \/ Unlock(w) \/ WriteFails(w)
  PROVE  UpdateInv' /\ FileInv'
<1> USE WritersAssumption
<1>r. w \notin Readers /\ w \in Writers \cup Readers /\ PactOf[w] \in Pact
  OBVIOUS
<1>k. file \in Content /\ before \in Content /\ pc \in [Writers \cup Readers -> WriterPc]
      /\ mem \in [Writers -> Pact]
  BY DEF TypeOK
<1>d. /\ Empty.kind = "empty" /\ Absent.kind = "absent" /\ Corrupt.kind = "corrupt"
      /\ Empty # Absent /\ Empty # Corrupt /\ Corrupt # Absent
      /\ \A p : Full(p).kind = "full" /\ Full(p).pact = p
  BY DEF Empty, Absent, Corrupt, Full
<1>o. \A v \in Writers : v # w => pc[v] \notin Critical /\ pc'[v] = pc[v]
  <2>1. pc[w] \in Critical
    BY DEF ReadAndMerge, Create, LockExclusiveFails, Truncate, Write, Unlock, WriteFails,
       Critical, WriterPc
  <2>2. pc' = pc \/ \E l : pc' = [pc EXCEPT ![w] = l]
    BY DEF ReadAndMerge, Create, LockExclusiveFails, Truncate, Write, Unlock, WriteFails,
       Return, Goto
  <2>3. \A v \in Writers : v # w => pc'[v] = pc[v]
    BY <1>k, <1>r, <2>2
  <2> QED
    BY <2>1, <2>3, OneWriter
<1>c. \A v \in Writers : v # w => /\ pc'[v] \notin Critical
                                  /\ ~InWindow(v) /\ ~InWindow(v)'
  BY <1>o DEF InWindow, Critical, WriterPc
\* It is enough to look at the writer that moved.
<1>u. ASSUME /\ pc'[w] \in {"rlock", "read"} => w \notin Overwriters /\ file' # Absent
             /\ pc'[w] # "create"
             /\ pc'[w] \in {"wlock", "truncate"} => MergeWrite(w, file)'
             /\ pc'[w] = "wlockNew" => file' = Empty /\ FreshWrite(w)'
             /\ pc'[w] = "write" => file' = Empty /\ (FreshWrite(w) \/ MergeWrite(w, before))'
             /\ pc'[w] = "unlock" => file' = Full(mem'[w])
                                     /\ DOMAIN PactOf[w] \subseteq DOMAIN mem'[w]
      PROVE  UpdateInv'
  BY <1>u, <1>c DEF UpdateInv, Critical, WriterPc
<1>f. ASSUME file' = Corrupt => torn',
             file' = Empty => torn' \/ InWindow(w)',
             file'.kind = "full" => committed' \subseteq DOMAIN file'.pact,
             file' = Absent => committed' = {},
             InWindow(w)' => committed' \subseteq DOMAIN mem'[w]
      PROVE  FileInv'
  BY <1>f, <1>c DEF FileInv
<1>1. CASE ReadAndMerge(w)
  <2>1. UpdateInv'
    <3>1. CASE file.kind = "full" /\ ~MergeConflict(PactOf[w], file.pact)
      BY <1>1, <1>u, <1>r, <1>k, <1>d, <3>1
      DEF ReadAndMerge, Goto, MergeWrite, UpdateInv
    <3>2. CASE ~(file.kind = "full" /\ ~MergeConflict(PactOf[w], file.pact))
      BY <1>1, <1>u, <1>r, <1>k, <3>2 DEF ReadAndMerge, Return, Goto
    <3> QED
      BY <3>1, <3>2
  <2>2. /\ pc[w] = "read" /\ pc'[w] \in {"wlock", "done"}
        /\ UNCHANGED <<file, committed, torn>>
    BY <1>1, <1>r, <1>k DEF ReadAndMerge, Return, Goto, history
  <2>3. FileInv'
    BY <1>f, <1>o, <2>2, <1>c DEF FileInv, InWindow, Critical
  <2> QED
    BY <2>1, <2>3
<1>2. CASE Create(w)
  <2>1. /\ pc[w] = "create" /\ pc'[w] = "wlockNew"
        /\ file' = Empty /\ before' = file /\ mem' = mem
        /\ committed' = IF w \in Overwriters THEN {} ELSE committed
    BY <1>2, <1>r, <1>k DEF Create, Goto
  <2>2. UpdateInv'
    BY <1>u, <2>1 DEF FreshWrite, UpdateInv
  <2>3. FileInv'
    BY <1>f, <1>d, <2>1 DEF InWindow, FileInv, UpdateInv
  <2> QED
    BY <2>2, <2>3
<1>3. CASE LockExclusiveFails(w)
  <2>1. /\ pc[w] \in {"wlock", "wlockNew"}
        /\ UNCHANGED <<file, mem, committed, before>>
        /\ \/ pc' = pc /\ torn' = torn
           \/ pc'[w] = "done" /\ torn' = (torn \/ pc[w] = "wlockNew")
    BY <1>3, <1>r, <1>k DEF LockExclusiveFails, Return, Goto
  <2>2. UpdateInv'
    BY <1>u, <2>1 DEF FreshWrite, MergeWrite, UpdateInv
  <2>3. FileInv'
    <3>1. CASE pc' = pc /\ torn' = torn
      BY <2>1, <3>1 DEF FileInv, InWindow
    <3>2. CASE pc'[w] = "done" /\ torn' = (torn \/ pc[w] = "wlockNew")
      <4>1. file = Empty => torn'
        BY <3>2, <1>c, <2>1 DEF FileInv, InWindow
      <4>2. file' = Corrupt => torn'
        BY <2>1, <3>2 DEF FileInv
      <4> QED
        BY <1>f, <2>1, <3>2, <4>1, <4>2 DEF FileInv, InWindow
    <3> QED
      BY <2>1, <3>1, <3>2
  <2> QED
    BY <2>2, <2>3
<1>4. CASE Truncate(w)
  <2>1. /\ pc[w] = "truncate" /\ pc'[w] = "write"
        /\ file' = Empty /\ before' = file /\ mem' = mem
        /\ committed' = committed
    BY <1>4, <1>r, <1>k DEF Truncate, Goto
  <2>2. MergeWrite(w, file)
    BY <2>1 DEF UpdateInv
  <2>3. file.pact \in Pact
    BY <1>k, <2>2, FullHoldsPact DEF MergeWrite
  <2>4. DOMAIN file.pact \subseteq DOMAIN mem[w]
    <3>1. DOMAIN Merge(PactOf[w], file.pact) = DOMAIN PactOf[w] \cup DOMAIN file.pact
      BY <1>r, <2>3, MergeKeepsKeys
    <3> QED
      BY <2>2, <3>1 DEF MergeWrite
  <2>5. UpdateInv'
    BY <1>u, <2>1, <2>2 DEF MergeWrite
  <2>6. FileInv'
    BY <1>f, <1>d, <2>1, <2>2, <2>4 DEF InWindow, FileInv, MergeWrite
  <2> QED
    BY <2>5, <2>6
<1>5. CASE Write(w)
  <2>1. /\ pc[w] = "write" /\ pc'[w] = "unlock"
        /\ mem' = mem /\ committed' = committed
    BY <1>5, <1>r, <1>k DEF Write, Goto, history
  <2>2. file = Empty /\ (FreshWrite(w) \/ MergeWrite(w, before))
    BY <2>1 DEF UpdateInv
  <2>3. file' = Full(mem[w])
    BY <1>5, <1>d, <2>2 DEF Write
  <2>4. DOMAIN PactOf[w] \subseteq DOMAIN mem[w]
    <3>1. CASE FreshWrite(w)
      BY <3>1 DEF FreshWrite
    <3>2. CASE MergeWrite(w, before)
      <4>1. before.pact \in Pact
        BY <3>2, <1>k, FullHoldsPact DEF MergeWrite
      <4>2. DOMAIN Merge(PactOf[w], before.pact) = DOMAIN PactOf[w] \cup DOMAIN before.pact
        BY <1>r, <4>1, MergeKeepsKeys
      <4> QED
        BY <3>2, <4>2 DEF MergeWrite
    <3> QED
      BY <2>2, <3>1, <3>2
  <2>5. committed \subseteq DOMAIN mem[w]
    BY <2>1 DEF FileInv, InWindow
  <2>6. UpdateInv'
    BY <1>u, <2>1, <2>3, <2>4
  <2>7. FileInv'
    BY <1>f, <1>d, <2>1, <2>3, <2>5 DEF InWindow
  <2> QED
    BY <2>6, <2>7
<1>6. CASE Unlock(w)
  <2>1. /\ pc[w] = "unlock" /\ pc'[w] = "done"
        /\ file' = file /\ mem' = mem
        /\ committed' = committed \cup DOMAIN PactOf[w]
    BY <1>6, <1>r, <1>k DEF Unlock, Return, Goto
  <2>2. file = Full(mem[w]) /\ DOMAIN PactOf[w] \subseteq DOMAIN mem[w]
    BY <2>1 DEF UpdateInv
  <2>3. UpdateInv'
    BY <1>u, <2>1
  <2>4. FileInv'
    BY <1>f, <1>d, <2>1, <2>2 DEF InWindow, FileInv
  <2> QED
    BY <2>3, <2>4
<1>7. CASE WriteFails(w)
  <2>1. /\ pc[w] \in {"truncate", "write"} /\ pc'[w] = "done"
        /\ mem' = mem /\ committed' = committed
        /\ torn' = (torn \/ pc[w] = "write")
        /\ file' = file \/ (file' = Corrupt /\ torn')
    BY <1>7, <1>r, <1>k DEF WriteFails, Return, Goto, Unfinished
  <2>2. UpdateInv'
    BY <1>u, <2>1
  <2>3. file = Empty => torn'
    BY <1>c, <2>1 DEF FileInv, InWindow
  <2>5. file' = Corrupt => torn'
    BY <2>1 DEF FileInv
  <2>4. FileInv'
    BY <1>f, <1>d, <2>1, <2>3, <2>5 DEF InWindow, FileInv
  <2> QED
    BY <2>2, <2>4
<1> QED
  BY <1>1, <1>2, <1>3, <1>4, <1>5, <1>6, <1>7

\* A crash of the process idles all its writers and marks a file it had
\* truncated; readers change neither the file nor a writer.
LEMMA OtherInv ==
  ASSUME SingleProcess, TypeOK, UpdateInv, FileInv,
         (\E p \in Procs : Crash(p)) \/ (\E r \in Readers : ReaderStep(r))
  PROVE  UpdateInv' /\ FileInv'
<1> USE WritersAssumption
<1>1. ASSUME NEW p \in Procs, Crash(p) PROVE UpdateInv' /\ FileInv'
  <2>1. \A w \in Writers : ProcOf[w] = p
    BY <1>1 DEF Crash, SingleProcess
  <2>2. \A w \in Writers : pc'[w] = "idle"
    BY <1>1, <2>1 DEF Crash
  <2>3. UNCHANGED <<mem, committed, before>>
    BY <1>1 DEF Crash
  <2>4. torn' = (torn \/ \E w \in Writers : InWindow(w))
    BY <1>1, <2>1 DEF Crash
  <2>5. UpdateInv'
    BY <2>2 DEF UpdateInv
  <2>7. file' = file \/ (file' = Corrupt /\ torn')
    BY <1>1, <2>4 DEF Crash, Unfinished, InWindow
  <2>8. Corrupt # Empty /\ Corrupt # Absent /\ Corrupt.kind # "full"
    BY DEF Corrupt, Empty, Absent
  <2>6. FileInv'
    BY <2>2, <2>3, <2>4, <2>7, <2>8 DEF FileInv, InWindow
  <2> QED
    BY <2>5, <2>6
<1>2. ASSUME NEW r \in Readers, ReaderStep(r) PROVE UpdateInv' /\ FileInv'
  <2>1. UNCHANGED <<file, mem, committed, before, torn>>
    BY <1>2 DEF ReaderStep, Open, ReaderLock, ReaderRead, history
  <2>2. \A w \in Writers : pc'[w] = pc[w]
    BY <1>2 DEF ReaderStep, Open, ReaderLock, ReaderRead, Goto, TypeOK
  <2> QED
    BY <2>1, <2>2 DEF UpdateInv, FileInv, InWindow, FreshWrite, MergeWrite
<1> QED
  BY <1>1, <1>2

\* The inductive invariant of the writers of one process.
THEOREM OneProcessCorrect ==
  ASSUME SingleProcess PROVE Spec => []WriterInv
<1>1. Init => UpdateInv /\ FileInv
  <2> SUFFICES ASSUME Init PROVE UpdateInv /\ FileInv
    OBVIOUS
  <2>1. \A w \in Writers : pc[w] = "idle"
    BY DEF Init
  <2>2. UpdateInv
    BY <2>1 DEF UpdateInv
  <2>3. FileInv
    BY <2>1 DEF Init, FileInv, InWindow, Full, Absent, Empty, Corrupt
  <2> QED
    BY <2>2, <2>3
<1>2. TypeOK /\ LockInv /\ UpdateInv /\ FileInv /\ [Next]_vars => UpdateInv' /\ FileInv'
  <2> SUFFICES ASSUME TypeOK, LockInv, UpdateInv, FileInv, [Next]_vars
               PROVE  UpdateInv' /\ FileInv'
    OBVIOUS
  <2>1. CASE Next
    BY <2>1, QuietWriterInv, UpdateStepInv, OtherInv DEF Next, WriterStep
  <2>2. CASE UNCHANGED vars
    BY <2>2 DEF vars, UpdateInv, FileInv, InWindow, FreshWrite, MergeWrite
  <2> QED
    BY <2>1, <2>2
<1> QED
  BY <1>1, <1>2, TypeCorrect, LocksAreHeld, PTL DEF Spec, OneProcessInv, WriterInv

\* Writes of one process lose no interaction, and leave no empty or mixed
\* file unless a writer gave up after truncating it.
THEOREM NothingIsLost ==
  ASSUME SingleProcess PROVE Spec => []KeepsTheFile
<1>1. TypeOK /\ OneProcessInv => KeepsTheFile
  <2> SUFFICES ASSUME TypeOK, FileInv PROVE NoLostInteraction /\ EmptyOnlyInWindow
    BY DEF OneProcessInv, KeepsTheFile
  <2>1. file.kind \in {"empty", "corrupt"} => file = Empty \/ file = Corrupt
    BY ContentKinds DEF TypeOK, Empty, Corrupt, Absent, Full
  <2> QED
    BY <2>1 DEF FileInv, NoLostInteraction, EmptyOnlyInWindow
<1> QED
  BY <1>1, TypeCorrect, OneProcessCorrect, PTL DEF WriterInv

-----------------------------------------------------------------------------
(* What can be read, for any number of processes.                          *)

\* The steps of a writer that leave the file as it is.
LEMMA QuietTextInv ==
  ASSUME TypeOK, LockInv, TextInv, NEW w \in Writers,
         Call(w) \/ TakeWriteLock(w) \/ CheckExists(w) \/ LockShared(w)
           \/ LockSharedFails(w) \/ LockExclusive(w) \/ LockExclusiveFails(w)
           \/ ReadAndMerge(w) \/ Unlock(w)
  PROVE  TextInv'
<1> USE WritersAssumption
<1>1. /\ w \in Writers \cup Readers /\ pc \in [Writers \cup Readers -> WriterPc]
      /\ file' = file /\ raced' = raced
  BY DEF TypeOK, Call, TakeWriteLock, CheckExists, LockShared, LockSharedFails, LockExclusive,
     LockExclusiveFails, ReadAndMerge, Unlock, history
<1>2. \A v \in Writers \ {w} : pc'[v] = pc[v]
  BY <1>1 DEF Call, TakeWriteLock, CheckExists, LockShared, LockSharedFails, LockExclusive,
     LockExclusiveFails, ReadAndMerge, Unlock, Return, Goto
\* A writer becomes one that updates only if the file has a pact.
<1>3. /\ MidUpdate(w)' => MidUpdate(w) \/ file.kind = "full"
      /\ pc'[w] \in {"wlockNew", "write"} => InWindow(w)
      /\ pc'[w] = "wlockNew" => pc[w] = "wlockNew"
  BY <1>1 DEF Call, TakeWriteLock, CheckExists, LockShared, LockSharedFails, LockExclusive,
     LockExclusiveFails, ReadAndMerge, Unlock, Return, Goto, MidUpdate, InWindow
<1>4. /\ torn => torn'
      /\ InWindow(w) => InWindow(w)' \/ torn'
  <2>1. CASE LockExclusiveFails(w)
    <3>1. CASE attempt[w] + 1 < Attempts
      BY <2>1, <3>1 DEF LockExclusiveFails, InWindow
    <3>2. CASE ~(attempt[w] + 1 < Attempts)
      <4>1. torn' = (torn \/ pc[w] = "wlockNew") /\ pc[w] \in {"wlock", "wlockNew"}
        BY <2>1, <3>2 DEF LockExclusiveFails
      <4>2. InWindow(w) => pc[w] = "wlockNew"
        BY <4>1 DEF InWindow
      <4> QED
        BY <4>1, <4>2, Zenon
    <3> QED
      BY <3>1, <3>2
  <2>2. CASE ~LockExclusiveFails(w)
    BY <1>1, <2>2 DEF Call, TakeWriteLock, CheckExists, LockShared, LockSharedFails, LockExclusive,
       ReadAndMerge, Unlock, Return, Goto, InWindow, history
  <2> QED
    BY <2>1, <2>2
<1>5. Empty.kind # "full"
  BY DEF Empty
<1>6. file' = Corrupt => torn' \/ raced'
  BY <1>1, <1>4 DEF TextInv
<1>7. file' = Empty => torn' \/ \E v \in Writers : InWindow(v)'
  BY <1>1, <1>2, <1>4 DEF TextInv, InWindow
<1>8. ASSUME ~raced', NEW v \in Writers
      PROVE  /\ pc'[v] \in {"wlockNew", "write"} => file' = Empty
             /\ pc'[v] = "wlockNew" => \A u \in Writers \ {v} : ~MidUpdate(u)'
  <2>1. pc'[v] \in {"wlockNew", "write"} => pc[v] \in {"wlockNew", "write"} /\ file = Empty
    BY <1>1, <1>2, <1>3, <1>8 DEF TextInv, InWindow
  <2>2. pc'[v] = "wlockNew" => pc[v] = "wlockNew"
    BY <1>2, <1>3
  <2>3. ASSUME pc'[v] = "wlockNew", NEW u \in Writers \ {v} PROVE ~MidUpdate(u)'
    <3>1. ~MidUpdate(u) /\ file = Empty
      BY <1>1, <1>8, <2>1, <2>2, <2>3 DEF TextInv
    <3> QED
      BY <1>2, <1>3, <1>5, <3>1 DEF MidUpdate
  <2> QED
    BY <1>1, <2>1, <2>3
<1> QED
  BY <1>6, <1>7, <1>8 DEF TextInv

\* The steps that change it.
LEMMA FileTextInv ==
  ASSUME TypeOK, LockInv, TextInv, NEW w \in Writers,
         Create(w) \/ Truncate(w) \/ Write(w) \/ WriteFails(w)
  PROVE  TextInv'
<1> USE WritersAssumption
<1>1. /\ w \in Writers \cup Readers /\ pc \in [Writers \cup Readers -> WriterPc]
      /\ \A v \in Writers : v \in Writers \cup Readers
  BY DEF TypeOK
<1>2. \A v \in Writers \ {w} : pc'[v] = pc[v]
  BY <1>1 DEF Create, Truncate, Write, WriteFails, Return, Goto
<1>3. Empty # Corrupt /\ \A p : Full(p) # Empty /\ Full(p) # Corrupt
  BY DEF Empty, Corrupt, Full
<1>4. CASE Create(w)
  <2>1. /\ pc'[w] = "wlockNew" /\ file' = Empty /\ torn' = torn
        /\ raced' = (raced \/ \E v \in Writers \ {w} : MidUpdate(v))
    BY <1>1, <1>4 DEF Create, Goto
  <2>2. ~raced' => \A v \in Writers \ {w} : ~MidUpdate(v)'
    BY <1>2, <2>1 DEF MidUpdate
  <2>3. ~raced' => \A v \in Writers : pc'[v] = "wlockNew" => v = w
    BY <2>2 DEF MidUpdate
  <2> QED
    BY <1>3, <2>1, <2>2, <2>3 DEF TextInv, InWindow
<1>5. CASE Truncate(w)
  <2>1. /\ pc[w] = "truncate" /\ pc'[w] = "write" /\ file' = Empty
        /\ torn' = torn /\ raced' = raced
    BY <1>1, <1>5 DEF Truncate, Goto
  <2>2. ASSUME ~raced', NEW v \in Writers PROVE pc'[v] # "wlockNew"
    BY <1>2, <2>1, <2>2 DEF TextInv, MidUpdate
  <2> QED
    BY <1>3, <2>1, <2>2 DEF TextInv, InWindow
<1>6. CASE Write(w)
  <2>1. /\ pc[w] = "write" /\ pc'[w] = "unlock" /\ torn' = torn /\ raced' = raced
        /\ file' \in {Full(mem[w])} \cup (IF file.kind = "empty" THEN {} ELSE {Corrupt})
    BY <1>1, <1>6 DEF Write, Goto, history
  <2>2. ~raced => file' = Full(mem[w])
    BY <2>1 DEF TextInv, Empty
  <2>3. file' = Full(mem[w]) \/ file' = Corrupt
    BY <2>1
  <2>4. ASSUME ~raced', NEW v \in Writers PROVE pc'[v] \notin {"wlockNew", "write"}
    <3>1. pc[v] = "write" => v = w
      BY <2>1 DEF LockInv
    <3>2. v # w => pc[v] # "wlockNew"
      BY <2>1, <2>4 DEF TextInv, MidUpdate
    <3> QED
      BY <1>2, <2>1, <3>1, <3>2
  <2> QED
    BY <1>3, <2>1, <2>2, <2>3, <2>4 DEF TextInv
<1>7. CASE WriteFails(w)
  <2>1. /\ pc[w] \in {"truncate", "write"} /\ pc'[w] = "done" /\ raced' = raced
        /\ torn' = (torn \/ pc[w] = "write")
        /\ file' = file \/ (file' = Corrupt /\ pc[w] = "write")
    BY <1>1, <1>7 DEF WriteFails, Return, Goto, Unfinished
  <2>2. file' = Corrupt => torn' \/ raced'
    BY <2>1 DEF TextInv
  <2>3. file' = Empty => torn' \/ \E v \in Writers : InWindow(v)'
    BY <1>2, <1>3, <2>1 DEF TextInv, InWindow
  <2>4. ASSUME ~raced', NEW v \in Writers PROVE pc'[v] \notin {"wlockNew", "write"}
    <3>1. pc[v] = "write" => v = w
      BY <2>1 DEF LockInv
    <3>2. v # w => pc[v] # "wlockNew"
      BY <2>1, <2>4 DEF TextInv, MidUpdate
    <3> QED
      BY <1>2, <2>1, <3>1, <3>2
  <2> QED
    BY <2>2, <2>3, <2>4 DEF TextInv
<1> QED
  BY <1>4, <1>5, <1>6, <1>7

LEMMA OtherTextInv ==
  ASSUME TypeOK, LockInv, TextInv,
         (\E p \in Procs : Crash(p)) \/ (\E r \in Readers : ReaderStep(r))
  PROVE  TextInv'
<1> USE WritersAssumption
<1>1. ASSUME NEW p \in Procs, Crash(p) PROVE TextInv'
  <2> DEFINE dead == {w \in Writers : ProcOf[w] = p}
  <2>1. /\ raced' = raced
        /\ torn' = (torn \/ \E w \in dead : InWindow(w))
        /\ file' = file \/ (file' = Corrupt /\ torn')
        /\ \A v \in Writers : IF v \in dead THEN pc'[v] = "idle" ELSE pc'[v] = pc[v]
    BY <1>1 DEF Crash, Unfinished, InWindow
  <2> HIDE DEF dead
  <2>2. \A v \in Writers : /\ MidUpdate(v)' => MidUpdate(v)
                           /\ pc'[v] \in {"wlockNew", "write"} => pc'[v] = pc[v]
                           /\ InWindow(v) => InWindow(v)' \/ v \in dead
    BY <2>1 DEF MidUpdate, InWindow
  <2>3. Empty # Corrupt
    BY DEF Empty, Corrupt
  <2>4. file' = Empty => torn' \/ \E v \in Writers : InWindow(v)'
    BY <2>1, <2>2, <2>3 DEF TextInv
  <2>5. file' = Corrupt => torn' \/ raced'
    BY <2>1 DEF TextInv
  \* Who dies while it writes is the only one with the file.
  <2>6. ASSUME ~raced', NEW v \in Writers, pc'[v] \in {"wlockNew", "write"}, file' # file
        PROVE  FALSE
    <3>1. PICK w \in Writers : w \in dead /\ pc[w] = "write"
      BY <1>1, <2>6 DEF Crash, Unfinished, dead
    <3> QED
      BY <2>1, <2>2, <2>6, <3>1 DEF TextInv, LockInv, MidUpdate
  <2> QED
    BY <2>1, <2>2, <2>4, <2>5, <2>6 DEF TextInv
<1>2. ASSUME NEW r \in Readers, ReaderStep(r) PROVE TextInv'
  <2>1. UNCHANGED <<file, torn, raced>>
    BY <1>2 DEF ReaderStep, Open, ReaderLock, ReaderRead, history
  <2>2. \A w \in Writers : pc'[w] = pc[w]
    BY <1>2 DEF ReaderStep, Open, ReaderLock, ReaderRead, Goto, TypeOK
  <2> QED
    BY <2>1, <2>2 DEF TextInv, MidUpdate, InWindow
<1> QED
  BY <1>1, <1>2

\* Why a text is not a pact (write_pact, with_write_lock), for any writers,
\* processes, crashes and failing writes.
THEOREM TextsExplained == Spec => []TextInv
<1>1. Init => TextInv
  BY WritersAssumption DEF Init, TextInv, Full, Absent, Empty, Corrupt
<1>2. TypeOK /\ LockInv /\ TextInv /\ [Next]_vars => TextInv'
  <2> SUFFICES ASSUME TypeOK, LockInv, TextInv, [Next]_vars PROVE TextInv'
    OBVIOUS
  <2>1. CASE Next
    BY <2>1, QuietTextInv, FileTextInv, OtherTextInv DEF Next, WriterStep
  <2>2. CASE UNCHANGED vars
    BY <2>2 DEF vars, TextInv, InWindow, MidUpdate
  <2> QED
    BY <2>1, <2>2
<1> QED
  BY <1>1, <1>2, TypeCorrect, LocksAreHeld, PTL DEF Spec

\* For any processes and any file: who holds the shared lock reads a text that
\* is not a pact only through File::create, or after a writer gave up.
THEOREM TornOnlyByCreation == Spec => []TornOnlyByCreate
<1>1. TypeOK /\ LockInv /\ TextInv => TornOnlyByCreate
  <2> SUFFICES ASSUME TypeOK, LockInv, TextInv, shared # {},
                      file.kind \in {"empty", "corrupt"}, ~torn, ~raced
               PROVE  \E w \in Writers : pc[w] = "wlockNew"
    BY DEF TornOnlyByCreate
  <2>1. file = Empty \/ file = Corrupt
    BY ContentKinds DEF TypeOK, Empty, Corrupt, Absent, Full
  <2>2. PICK w \in Writers : InWindow(w)
    BY <2>1 DEF TextInv
  <2>3. exclusive = NoOne
    BY DEF LockInv
  <2> QED
    BY <2>2, <2>3, WritersAssumption DEF InWindow, LockInv
<1> QED
  BY <1>1, TypeCorrect, LocksAreHeld, TextsExplained, PTL

\* The writers of one process never race: WRITE_LOCK is held from exists() to
\* the end of the write.
THEOREM OneProcessNeverRaces ==
  ASSUME SingleProcess PROVE Spec => []~raced
<1>1. Init => ~raced
  BY DEF Init
<1>2. LockInv /\ ~raced /\ [Next]_vars => ~raced'
  <2> SUFFICES ASSUME LockInv, ~raced, [Next]_vars PROVE ~raced'
    OBVIOUS
  <2>1. ASSUME NEW w \in Writers, Create(w) PROVE ~raced'
    <3>1. \A v \in Writers \ {w} : ~MidUpdate(v)
      BY <2>1, OneWriter DEF Create, MidUpdate, Critical, WriterPc
    <3> QED
      BY <2>1, <3>1 DEF Create
  <2>2. UNCHANGED raced \/ \E w \in Writers : Create(w)
    BY DEF Next, WriterStep, ReaderStep, Call, TakeWriteLock, CheckExists, LockShared,
       LockSharedFails, ReadAndMerge, LockExclusive, LockExclusiveFails, Truncate, Write,
       Unlock, WriteFails, Crash, Open, ReaderLock, ReaderRead, history, vars
  <2> QED
    BY <2>1, <2>2
<1> QED
  BY <1>1, <1>2, LocksAreHeld, PTL DEF Spec

-----------------------------------------------------------------------------
(* Refinement: the atomic store.                                           *)

\* The store speaks of the same merge as the file.
LEMMA SameMerge ==
  /\ Store!Pact = Pact
  /\ \A p, q : /\ Store!Merge(p, q) = Merge(p, q)
               /\ Store!MergeConflict(p, q) <=> MergeConflict(p, q)
BY DEF Store!Pact, Pact, Store!Merge, Merge, Store!MergeConflict, MergeConflict

\* What a content stands for.
LEMMA MeaningOf ==
  /\ Meaning(Absent) = NoPact /\ Meaning(Empty) = Broken /\ Meaning(Corrupt) = Broken
  /\ \A p : Meaning(Full(p)) = p
  /\ \A c \in Content : c.kind = "full" => Meaning(c) = c.pact /\ c.pact \in Pact
<1>1. /\ Meaning(Absent) = NoPact /\ Meaning(Empty) = Broken /\ Meaning(Corrupt) = Broken
      /\ \A p : Meaning(Full(p)) = p
  BY DEF Meaning, Absent, Empty, Corrupt, Full
<1>2. ASSUME NEW c \in Content, c.kind = "full" PROVE Meaning(c) = c.pact /\ c.pact \in Pact
  BY <1>2, FullHoldsPact DEF Meaning
<1> QED
  BY <1>1, <1>2

\* One step of the file is one step of the store, or leaves it as it is.
LEMMA StepRefines ==
  ASSUME SingleProcess, TypeOK, OneProcessInv, [Next]_vars
  PROVE  [Store!StoreNext]_storeBar
<1> USE WritersAssumption
<1>k. file \in Content /\ before \in Content /\ pc \in [Writers \cup Readers -> WriterPc]
      /\ mem \in [Writers -> Pact]
  BY DEF TypeOK
<1>i. LockInv /\ UpdateInv /\ FileInv
  BY DEF OneProcessInv
<1> DEFINE Open_ == \E w \in Writers : InWindow(w)
<1>e. Open_ => file = Empty
  BY <1>i DEF InWindow, UpdateInv
<1>b. ASSUME file' = file \/ (file' = Corrupt /\ Open_ /\ ~Open_'),
             Open_' => Open_ /\ before' = before
      PROVE  [Store!StoreNext]_storeBar
  \* Only a window that closes shows: it leaves no pact in the file.
  <2>1. CASE Open_ /\ ~Open_'
    BY <1>b, <1>e, <2>1, MeaningOf DEF storeBar, Store!StoreNext, Store!Break
  <2>2. CASE ~(Open_ /\ ~Open_')
    BY <1>b, <2>2 DEF storeBar
  <2> QED
    BY <2>1, <2>2
<1>1. ASSUME NEW w \in Writers, Create(w) \/ Truncate(w)
      PROVE  storeBar' = storeBar
  <2>1. /\ pc[w] \in {"create", "truncate"} /\ InWindow(w)' /\ before' = file
    BY <1>1, <1>k DEF Create, Truncate, Goto, InWindow
  <2>2. \A v \in Writers : ~InWindow(v)
    BY <2>1, <1>i, OneWriter DEF InWindow, Critical, WriterPc
  <2> QED
    BY <2>1, <2>2 DEF storeBar
<1>2. ASSUME NEW w \in Writers, Write(w)
      PROVE  Store!StoreNext
  <2>1. /\ pc[w] = "write" /\ pc'[w] = "unlock"
        /\ \A v \in Writers : v # w => pc'[v] = pc[v]
    BY <1>2, <1>k DEF Write, Goto
  <2>2. file = Empty /\ (FreshWrite(w) \/ MergeWrite(w, before))
    BY <2>1, <1>i DEF UpdateInv
  <2>3. file' = Full(mem[w])
    BY <1>2, <2>2 DEF Write, Empty
  <2>4. InWindow(w) /\ \A v \in Writers : ~InWindow(v)'
    BY <2>1, <1>i, OneWriter DEF InWindow, Critical, WriterPc
  <2>5. storeBar = Meaning(before) /\ storeBar' = mem[w]
    BY <2>3, <2>4, MeaningOf DEF storeBar
  <2>6. CASE FreshWrite(w) /\ w \in Overwriters
    <3>1. storeBar' = PactOf[w]
      BY <2>5, <2>6 DEF FreshWrite
    <3> QED
      BY <2>6, <3>1 DEF Store!StoreNext, Store!Replace
  <2>7. CASE FreshWrite(w) /\ before = Absent
    <3>1. storeBar = NoPact /\ storeBar' = PactOf[w]
      BY <2>5, <2>7, MeaningOf DEF FreshWrite
    <3> QED
      BY <3>1 DEF Store!StoreNext, Store!First
  <2>8. CASE MergeWrite(w, before)
    <3>1. storeBar = before.pact /\ before.pact \in Pact
      BY <1>k, <2>5, <2>8, MeaningOf DEF MergeWrite
    <3>2. storeBar' = Merge(PactOf[w], before.pact)
      BY <2>5, <2>8 DEF MergeWrite
    <3>3. w \notin Overwriters /\ ~MergeConflict(PactOf[w], before.pact)
      BY <2>8 DEF MergeWrite
    <3>4. Store!Add(w)
      BY <3>1, <3>2, <3>3, SameMerge DEF Store!Add
    <3> QED
      BY <3>4 DEF Store!StoreNext
  <2> QED
    BY <2>2, <2>6, <2>7, <2>8 DEF FreshWrite
<1>3. ASSUME NEW w \in Writers,
             Call(w) \/ TakeWriteLock(w) \/ CheckExists(w) \/ LockShared(w)
               \/ LockSharedFails(w) \/ ReadAndMerge(w) \/ LockExclusive(w)
               \/ LockExclusiveFails(w) \/ Unlock(w)
      PROVE  [Store!StoreNext]_storeBar
  <2>1. UNCHANGED <<file, before>>
    BY <1>3 DEF Call, TakeWriteLock, CheckExists, LockShared, LockSharedFails,
       ReadAndMerge, LockExclusive, LockExclusiveFails, Unlock, history
  <2>2. \A v \in Writers : InWindow(v)' => InWindow(v)
    BY <1>3, <1>k DEF Call, TakeWriteLock, CheckExists, LockShared, LockSharedFails,
       ReadAndMerge, LockExclusive, LockExclusiveFails, Unlock, Return, Goto, InWindow
  <2> QED
    BY <1>b, <2>1, <2>2
<1>6. ASSUME NEW w \in Writers, WriteFails(w)
      PROVE  [Store!StoreNext]_storeBar
  <2>1. /\ pc[w] \in {"truncate", "write"} /\ pc'[w] = "done" /\ before' = before
        /\ \A v \in Writers : v # w => pc'[v] = pc[v]
        /\ file' = file \/ (file' = Corrupt /\ pc[w] = "write")
    BY <1>6, <1>k DEF WriteFails, Return, Goto, Unfinished
  <2>2. ~Open_'
    BY <2>1, <1>i, OneWriter DEF InWindow, Critical, WriterPc
  <2> QED
    BY <1>b, <2>1, <2>2 DEF InWindow
<1>7. ASSUME NEW p \in Procs, Crash(p) PROVE [Store!StoreNext]_storeBar
  <2>1. ~Open_'
    BY <1>7 DEF Crash, SingleProcess, InWindow
  <2>2. before' = before /\ (file' = file \/ (file' = Corrupt /\ Open_))
    BY <1>7 DEF Crash, Unfinished, InWindow
  <2> QED
    BY <1>b, <2>1, <2>2
<1>4. ASSUME NEW r \in Readers, ReaderStep(r) PROVE [Store!StoreNext]_storeBar
  <2>1. UNCHANGED <<file, before>>
    BY <1>4 DEF ReaderStep, Open, ReaderLock, ReaderRead, history
  <2>2. \A v \in Writers : InWindow(v)' => InWindow(v)
    BY <1>4, <1>k DEF ReaderStep, Open, ReaderLock, ReaderRead, Goto, InWindow
  <2> QED
    BY <1>b, <2>1, <2>2
<1>5. CASE UNCHANGED vars
  BY <1>5 DEF vars, storeBar, InWindow
<1> QED
  BY <1>1, <1>2, <1>3, <1>4, <1>5, <1>6, <1>7 DEF Next, WriterStep

\* The writers of one process implement the atomic pact store.
THEOREM OneProcessRefinesStore ==
  ASSUME SingleProcess PROVE Spec => ImplementsPactStore
<1>1. Init => storeBar = InitialPact
  <2> SUFFICES ASSUME Init PROVE storeBar = InitialPact
    OBVIOUS
  <2>1. \A w \in Writers : ~InWindow(w)
    BY WritersAssumption DEF Init, InWindow
  <2> QED
    BY <2>1, MeaningOf DEF Init, storeBar
<1>2. TypeOK /\ OneProcessInv /\ [Next]_vars => [Store!StoreNext]_storeBar
  BY StepRefines
<1> QED
  BY <1>1, <1>2, TypeCorrect, OneProcessCorrect, PTL
  DEF WriterInv, Spec, ImplementsPactStore, Store!StoreSpec
=============================================================================
