---------------------------- MODULE ServiceProofs ----------------------------
(***************************************************************************)
(* What one process of the service keeps, for any numbers of tasks.        *)
(*                                                                         *)
(* Its files: the knowledge file never goes back whatever fails, the       *)
(* session store stays whole and keeps what was saved.  Its runners: those *)
(* of a session exclude one another whatever is halted, dies or is         *)
(* abandoned.  The calls of one of its accounts: the mutation slot has one *)
(* owner whatever is dropped, refused or timed out; the server executes a  *)
(* mutation once at most and its caller learns what became of it; a        *)
(* refresh is not older than the mutation it follows.  That account's      *)
(* connection: an account nobody connects and nobody was told about is     *)
(* logged in.                                                              *)
(***************************************************************************)
EXTENDS KnowledgeWriter, SessionStore, ScriptRuns, AccountCalls, ManagedAccount,
        SequenceTheorems, FiniteSetTheorems, WellFoundedInduction, TLAPS

Snapshots == Nat \cup {NoSnapshot}

KnowledgeTypeOK ==
  /\ knowledge \in Nat
  /\ publisher \in [Publishers -> [phase : {"resting", "changed", "publishing", "waking"}, snapshot : Snapshots]]
  /\ \A p \in Publishers : publisher[p].phase = "publishing" => publisher[p].snapshot \in Nat
  /\ mailbox \in Snapshots /\ writer \in Snapshots
  /\ attempted \in Nat /\ written \in Nat /\ failedWrites \subseteq Nat
  /\ forgotten \in BOOLEAN

\* The worker has attempted everything that is in the file or failed, and what it
\* writes at present is the newest it attempted.
AttemptsAhead ==
  /\ writer # NoSnapshot => writer = attempted
  /\ ~forgotten => written <= attempted /\ (writer # NoSnapshot => written < writer)
  /\ \A v \in failedWrites : v <= attempted /\ (writer # NoSnapshot => v < writer)

KnowledgeInv == KnowledgeTypeOK /\ AttemptsAhead

LEMMA KnowledgeInvInit == KnowledgeInit => KnowledgeInv
<1> SUFFICES ASSUME KnowledgeInit PROVE KnowledgeInv
  OBVIOUS
<1>1. KnowledgeTypeOK
  BY DEF KnowledgeInit, KnowledgeTypeOK, Snapshots, Resting
<1>2. AttemptsAhead
  BY DEF KnowledgeInit, AttemptsAhead
<1>3. QED
  BY <1>1, <1>2 DEF KnowledgeInv

\* Publishers move snapshots as far as the mailbox, and change nothing the worker has.
LEMMA PublisherSteps ==
  ASSUME KnowledgeInv, NEW p \in Publishers, Merge(p) \/ Publishes(p)
  PROVE  KnowledgeInv'
<1> USE DEF KnowledgeInv, KnowledgeTypeOK, Snapshots
<1>1. CASE Merge(p)
  BY <1>1, KnowledgeAssumption DEF Merge, AttemptsAhead, Resting
<1>2. CASE TakeSnapshot(p)
  BY <1>2 DEF TakeSnapshot, AttemptsAhead
<1>3. CASE Publish(p)
  <2>1. publisher' \in [Publishers -> [phase : {"resting", "changed", "publishing", "waking"}, snapshot : Snapshots]]
    BY <1>3 DEF Publish, Resting
  <2>2. \A o \in Publishers : publisher'[o].phase = "publishing" => publisher'[o].snapshot \in Nat
    BY <1>3 DEF Publish, Resting
  <2>3. mailbox' \in Snapshots
    BY <1>3 DEF Publish
  <2>4. QED
    BY <1>3, <2>1, <2>2, <2>3 DEF Publish, AttemptsAhead
<1>4. CASE Wake(p)
  BY <1>4 DEF Wake, AttemptsAhead, Resting
<1>5. QED
  BY <1>1, <1>2, <1>3, <1>4 DEF Publishes

LEMMA WriterTakesStep ==
  ASSUME KnowledgeInv, WriterTakes
  PROVE  KnowledgeInv'
<1> USE DEF KnowledgeInv, KnowledgeTypeOK, Snapshots, WriterTakes, AttemptsAhead
<1>1. CASE mailbox # NoSnapshot /\ mailbox > attempted
  BY <1>1
<1>2. CASE ~(mailbox # NoSnapshot /\ mailbox > attempted)
  BY <1>2
<1>3. QED
  BY <1>1, <1>2

LEMMA WriteEndsStep ==
  ASSUME KnowledgeInv, WriteEnds
  PROVE  KnowledgeInv'
<1> USE KnowledgeAssumption DEF KnowledgeInv, KnowledgeTypeOK, Snapshots, WriteEnds, AttemptsAhead
<1>1. CASE written' = writer /\ failedWrites' = failedWrites
  BY <1>1
<1>2. CASE failedWrites' = failedWrites \cup {writer} /\ written' = written
  BY <1>2
<1>3. QED
  BY <1>1, <1>2

LEMMA CrashStep ==
  ASSUME KnowledgeInv, CrashAndLoad
  PROVE  KnowledgeInv'
<1> USE DEF KnowledgeInv, KnowledgeTypeOK, Snapshots
<1>1. publisher' = [p \in Publishers |-> Resting]
  BY DEF CrashAndLoad
<1>2. PICK loaded \in {0, written} :
        /\ knowledge' = loaded /\ attempted' = loaded
        /\ forgotten' = (forgotten \/ loaded # written)
  BY DEF CrashAndLoad
<1>3. KnowledgeTypeOK'
  BY <1>1, <1>2 DEF CrashAndLoad, Resting
<1>4. AttemptsAhead'
  <2>1. CASE loaded = written
    BY <1>2, <2>1 DEF CrashAndLoad, AttemptsAhead
  <2>2. CASE loaded = 0 /\ written # 0
    <3>1. forgotten' /\ writer' = NoSnapshot /\ failedWrites' = {}
      BY <1>2, <2>2 DEF CrashAndLoad
    <3>2. QED
      BY <3>1 DEF AttemptsAhead
  <2>3. QED
    BY <2>1, <2>2
<1>5. QED
  BY <1>3, <1>4

LEMMA KnowledgeInvNext == KnowledgeInv /\ [KnowledgeNext]_knowledgeVars => KnowledgeInv'
<1> SUFFICES ASSUME KnowledgeInv, [KnowledgeNext]_knowledgeVars PROVE KnowledgeInv'
  OBVIOUS
<1>1. CASE UNCHANGED knowledgeVars
  BY <1>1 DEF knowledgeVars, KnowledgeInv, KnowledgeTypeOK, AttemptsAhead, Snapshots
<1>2. CASE KnowledgeNext
  BY <1>2, PublisherSteps, WriterTakesStep, WriteEndsStep, CrashStep DEF KnowledgeNext, Writes
<1>3. QED
  BY <1>1, <1>2

\* Only the end of a write moves the file.
LEMMA FileMovesForward ==
  ASSUME KnowledgeInv, KnowledgeNext, written' # written, ~forgotten
  PROVE  written' > written /\ \A v \in failedWrites : written' > v
<1>1. WriteEnds
  BY DEF KnowledgeNext, Publishes, Writes, Merge, TakeSnapshot, Publish, Wake, WriterTakes, CrashAndLoad
<1>2. writer # NoSnapshot /\ written' = writer
  BY <1>1 DEF WriteEnds
<1>3. QED
  BY <1>2 DEF KnowledgeInv, KnowledgeTypeOK, AttemptsAhead, Snapshots

\* In whatever order operations publish, whatever fails and whenever the process
\* crashes, what the worker writes is newer than what is in the file and than what
\* it failed to write, unless a start could not read the file.
THEOREM FileNeverOlder == KnowledgeSpec => KnowledgeNeverOlder
<1>1. KnowledgeInv /\ [KnowledgeNext]_knowledgeVars
      => [written' # written /\ ~forgotten =>
            written' > written /\ \A v \in failedWrites : written' > v]_knowledgeVars
  BY FileMovesForward
<1>2. QED
  BY <1>1, KnowledgeInvInit, KnowledgeInvNext, PTL DEF KnowledgeSpec, KnowledgeNeverOlder
-----------------------------------------------------------------------------
(* The session store. *)

SaverPhases == {"idle", "collecting", "locking", "breaking"} \cup Holding
SaverStates == [phase : SaverPhases, todo : SUBSET Sessions, records : StoreRecords, due : StoreRecords]

StoreTypeOK ==
  /\ memory \in StoreRecords /\ acked \in StoreRecords
  /\ saver \in [Savers -> SaverStates]
  /\ lockFile \in {Nothing, "fresh", "old"}
  /\ tmpFile \in StoreRecords \cup {Half, Nothing}
  /\ storeFile \in StoreRecords \cup {Half}
  /\ raced \in BOOLEAN /\ overlapped \in BOOLEAN /\ unread \in BOOLEAN

\* While no lock file is removed that is not old, it is the lock of one operation.
LockIsHeld ==
  ~raced =>
    /\ \A p \in Savers : saver[p].phase \in Holding => lockFile = "fresh"
    /\ \A p, q \in Savers : saver[p].phase \in Holding /\ saver[q].phase \in Holding => p = q

\* Then the temporary file is that operation's, and complete before it is renamed.
FilesAreWhole ==
  ~raced =>
    /\ \A p \in Savers : saver[p].phase = "writing" => tmpFile = Half
    /\ \A p \in Savers : saver[p].phase = "renaming" => tmpFile = saver[p].records
    /\ storeFile # Half

\* Whoever saves does so in a process that runs.
SaversAreUp == \A p \in Savers : saver[p].phase # "idle" => service \in {"up", "stopping"}

OneSave ==
  ~overlapped => \A p, q \in Savers : saver[p].phase # "idle" /\ saver[q].phase # "idle" => p = q

\* A save that is alone collects what was there when it began, and nothing in memory,
\* in its records or in the file is older than what a save that is done had found.
VersionsKept ==
  ~raced /\ ~overlapped /\ ~unread =>
    /\ \A s \in Sessions : acked[s] <= storeFile[s]
    /\ service \in {"up", "stopping"} => \A s \in Sessions : storeFile[s] <= memory[s]
    /\ \A p \in Savers : saver[p].phase # "idle" =>
         /\ saver[p].due = memory
         /\ \A s \in Sessions : saver[p].records[s] \in {0, memory[s]}

StoreInv == StoreTypeOK /\ LockIsHeld /\ FilesAreWhole /\ SaversAreUp /\ OneSave /\ VersionsKept

LEMMA IdleType == Empty \in StoreRecords /\ Idle \in SaverStates /\ Idle.phase = "idle"
  BY DEF Empty, Idle, StoreRecords, SaverStates, SaverPhases

LEMMA StoreInvInit == StoreInit => StoreInv
<1> SUFFICES ASSUME StoreInit PROVE StoreInv
  OBVIOUS
<1>1. StoreTypeOK
  BY IdleType DEF StoreInit, StoreTypeOK, StoreRecords
<1>2. LockIsHeld /\ FilesAreWhole /\ SaversAreUp /\ OneSave
  BY IdleType, StoreAssumption
     DEF StoreInit, LockIsHeld, FilesAreWhole, SaversAreUp, OneSave, Holding
<1>3. VersionsKept
  BY IdleType DEF StoreInit, VersionsKept, Empty
<1>4. QED
  BY <1>1, <1>2, <1>3 DEF StoreInv

LEMMA StoreTypeStep == StoreTypeOK /\ [StoreNext]_storeVars => StoreTypeOK'
<1> SUFFICES ASSUME StoreTypeOK, [StoreNext]_storeVars
             PROVE  StoreTypeOK'
  OBVIOUS
<1> USE DEF StoreTypeOK
<1>m. ASSUME NEW p \in Savers, NEW from, NEW to \in SaverPhases, Moves(p, from, to)
      PROVE  saver' \in [Savers -> SaverStates]
  BY <1>m DEF Moves, SaverStates
<1>i. ASSUME NEW p \in Savers, saver' = [saver EXCEPT ![p] = Idle]
      PROVE  saver' \in [Savers -> SaverStates]
  BY <1>i, IdleType
<1>b. ASSUME NEW p \in Savers, StartsSave(p), memory' \in StoreRecords
      PROVE  saver' \in [Savers -> SaverStates] /\ overlapped' \in BOOLEAN
  BY <1>b, IdleType DEF StartsSave, SaverStates, SaverPhases, Present
<1>1. ASSUME NEW p \in Savers, NEW s \in Sessions, Operate(p, s)
      PROVE  StoreTypeOK'
  <2>1. memory' \in StoreRecords
    BY <1>1 DEF Operate, StoreRecords
  <2>2. QED
    BY <1>1, <1>b, <2>1 DEF Operate, disk
<1>2. ASSUME NEW p \in Savers, NEW s \in Sessions, Collect(p, s)
      PROVE  StoreTypeOK'
  <2> DEFINE v == IF s \in unsound THEN 0 ELSE memory[s]
             r == [saver[p].records EXCEPT ![s] = v]
             t == saver[p].todo \ {s}
  <2>a. v \in Nat /\ saver[p] \in SaverStates
    BY DEF StoreRecords
  <2>b. r \in StoreRecords /\ t \in SUBSET Sessions
    BY <2>a DEF StoreRecords, SaverStates
  <2>c. saver' = [saver EXCEPT ![p] = [@ EXCEPT !.todo = t, !.records = r]]
    BY <1>2, <2>a DEF Collect, SaverStates
  <2> HIDE DEF t, r
  <2>1. saver' \in [Savers -> SaverStates]
    BY <2>a, <2>b, <2>c DEF SaverStates
  <2>2. QED
    BY <1>2, <2>1 DEF Collect, disk
<1>3. ASSUME NEW p \in Savers, Collected(p) \/ TakeLock(p) \/ SeeOldLock(p) \/ BreakLock(p)
      PROVE  StoreTypeOK'
  BY <1>3, <1>m DEF Collected, TakeLock, SeeOldLock, BreakLock, disk, SaverPhases, Holding
<1>4. ASSUME NEW p \in Savers, LockTimesOut(p) \/ Unlock(p)
      PROVE  StoreTypeOK'
  BY <1>4, <1>i DEF LockTimesOut, Unlock, disk
<1>5. ASSUME NEW p \in Savers, CreateTmp(p) \/ WriteTmp(p)
      PROVE  StoreTypeOK'
  <2>1. saver' \in [Savers -> SaverStates]
    BY <1>5, <1>m DEF CreateTmp, WriteTmp, SaverPhases, Holding
  <2>2. saver[p].records \in StoreRecords
    BY DEF SaverStates
  <2>3. QED
    BY <1>5, <2>1, <2>2 DEF CreateTmp, WriteTmp
<1>6. ASSUME NEW p \in Savers, WriteFails(p)
      PROVE  StoreTypeOK'
  BY <1>6 DEF WriteFails, StoreFault, disk, SaverStates, SaverPhases, Holding
<1>7. ASSUME NEW p \in Savers, Rename(p)
      PROVE  StoreTypeOK'
  <2>1. saver' \in [Savers -> SaverStates]
    BY <1>7, <1>m DEF Rename, SaverPhases, Holding
  <2>2. acked' \in StoreRecords
    BY <1>7 DEF Rename, SaverStates, StoreRecords, LaterOf
  <2>3. QED
    BY <1>7, <2>1, <2>2, StoreAssumption DEF Rename
<1>8. ASSUME NEW p \in Savers, BeginShutdown(p)
      PROVE  StoreTypeOK'
  BY <1>8, <1>b DEF BeginShutdown, disk
<1>9. CASE (\E s \in Sessions : GoesUnsound(s)) \/ LockAges \/ UNCHANGED storeVars
  BY <1>9 DEF GoesUnsound, LockAges, storeVars, disk
<1>10. CASE Crash \/ EndShutdown
  BY <1>10, IdleType DEF Crash, EndShutdown, disk
<1>11. CASE Restart
  <2>1. PICK fails \in {storeFile = Half, TRUE} :
          LET records == IF fails THEN Empty ELSE storeFile
          IN  /\ memory' = [s \in Sessions |-> IF records[s] > 0 THEN records[s] ELSE 1]
              /\ unread' = (unread \/ fails)
    BY <1>11 DEF Restart
  <2>2. (IF fails THEN Empty ELSE storeFile) \in StoreRecords
    BY <2>1, IdleType
  <2>3. memory' \in StoreRecords
    BY <2>1, <2>2 DEF StoreRecords
  <2>4. saver' \in [Savers -> SaverStates]
    BY <1>11, <2>3, IdleType DEF Restart, SaverStates, SaverPhases
  <2>5. QED
    BY <1>11, <2>1, <2>3, <2>4 DEF Restart, disk
<1>12. QED
  BY <1>1, <1>2, <1>3, <1>4, <1>5, <1>6, <1>7, <1>8, <1>9, <1>10, <1>11 DEF StoreNext, Saves

\* What an operation does to itself; the others it leaves alone.
OthersStay(p) == \A q \in Savers : q # p => saver'[q] = saver[q]
SaverGoes(p, to) ==
  /\ saver'[p].phase = to
  /\ saver'[p].records = saver[p].records /\ saver'[p].due = saver[p].due
  /\ OthersStay(p)

LEMMA SaverMoves ==
  ASSUME saver \in [Savers -> SaverStates], NEW p \in Savers, NEW from, NEW to, Moves(p, from, to)
  PROVE  saver[p].phase = from /\ SaverGoes(p, to)
  BY DEF Moves, SaverGoes, OthersStay, SaverStates

LEMMA SaverRests ==
  ASSUME saver \in [Savers -> SaverStates], NEW p \in Savers, saver' = [saver EXCEPT ![p] = Idle]
  PROVE  saver'[p].phase = "idle" /\ OthersStay(p)
  BY IdleType DEF OthersStay

LEMMA SaverBegins ==
  ASSUME saver \in [Savers -> SaverStates], NEW p \in Savers, StartsSave(p)
  PROVE  /\ saver[p].phase = "idle" /\ saver'[p].phase = "collecting" /\ OthersStay(p)
         /\ saver'[p].records = Empty /\ saver'[p].due = memory'
         /\ overlapped' = (overlapped \/ \E q \in Savers : saver[q].phase # "idle")
  BY IdleType DEF StartsSave, OthersStay

LEMMA SaverCollects ==
  ASSUME saver \in [Savers -> SaverStates], NEW p \in Savers, NEW s \in Sessions, Collect(p, s)
  PROVE  /\ saver[p].phase = "collecting" /\ saver'[p].phase = "collecting" /\ OthersStay(p)
         /\ saver'[p].due = saver[p].due
         /\ \A t \in Sessions : \/ saver'[p].records[t] = saver[p].records[t]
                                \/ saver'[p].records[t] \in {0, memory[t]}
  BY DEF Collect, OthersStay, SaverStates, StoreRecords

LEMMA SaversStart ==
  ASSUME saver \in [Savers -> SaverStates], Restart
  PROVE  \E p \in Savers :
           /\ \A q \in Savers : q # p => saver'[q] = saver[q]
           /\ saver'[p].phase = "collecting" /\ saver'[p].records = Empty /\ saver'[p].due = memory'
  BY DEF Restart

LEMMA LockStep ==
  ASSUME StoreTypeOK, LockIsHeld, [StoreNext]_storeVars
  PROVE  LockIsHeld'
<1> SUFFICES ASSUME ~raced'
             PROVE  /\ \A p \in Savers : saver'[p].phase \in Holding => lockFile' = "fresh"
                    /\ \A p, q \in Savers : saver'[p].phase \in Holding /\ saver'[q].phase \in Holding => p = q
  BY DEF LockIsHeld
<1>s. saver \in [Savers -> SaverStates] /\ raced \in BOOLEAN
  BY DEF StoreTypeOK
<1>r. ~raced
  BY DEF StoreNext, Saves, Operate, Collect, Collected, TakeLock, SeeOldLock, BreakLock, LockTimesOut,
         CreateTmp, WriteTmp, WriteFails, Rename, Unlock, BeginShutdown, GoesUnsound, LockAges, Crash,
         Restart, EndShutdown, storeVars
<1>h. /\ \A p \in Savers : saver[p].phase \in Holding => lockFile = "fresh"
      /\ \A p, q \in Savers : saver[p].phase \in Holding /\ saver[q].phase \in Holding => p = q
  BY <1>r DEF LockIsHeld
\* An operation that holds nothing after its step, of those it held before.
<1>n. ASSUME NEW p \in Savers, OthersStay(p), lockFile' = lockFile,
             saver'[p].phase \in Holding => saver[p].phase \in Holding
      PROVE  /\ \A q \in Savers : saver'[q].phase \in Holding => lockFile' = "fresh"
             /\ \A q, o \in Savers : saver'[q].phase \in Holding /\ saver'[o].phase \in Holding => q = o
  BY <1>h, <1>n DEF OthersStay
<1>1. ASSUME NEW p \in Savers, NEW s \in Sessions, Operate(p, s)
      PROVE  OthersStay(p) /\ lockFile' = lockFile /\ saver'[p].phase \notin Holding
  BY <1>1, <1>s, SaverBegins DEF Operate, disk, Holding
<1>2. ASSUME NEW p \in Savers, NEW s \in Sessions, Collect(p, s)
      PROVE  OthersStay(p) /\ lockFile' = lockFile /\ saver'[p].phase \notin Holding
  BY <1>2, <1>s, SaverCollects DEF Collect, disk, Holding
<1>3. ASSUME NEW p \in Savers, Collected(p) \/ SeeOldLock(p)
      PROVE  OthersStay(p) /\ lockFile' = lockFile /\ saver'[p].phase \notin Holding
  BY <1>3, <1>s, SaverMoves DEF Collected, SeeOldLock, disk, Holding, SaverGoes
<1>4. ASSUME NEW p \in Savers, BeginShutdown(p)
      PROVE  OthersStay(p) /\ lockFile' = lockFile /\ saver'[p].phase \notin Holding
  BY <1>4, <1>s, SaverBegins DEF BeginShutdown, disk, Holding
<1>5. ASSUME NEW p \in Savers, LockTimesOut(p)
      PROVE  OthersStay(p) /\ lockFile' = lockFile /\ saver'[p].phase \notin Holding
  BY <1>5, <1>s, SaverRests DEF LockTimesOut, disk, Holding
<1>6. ASSUME NEW p \in Savers, CreateTmp(p) \/ WriteTmp(p) \/ Rename(p)
      PROVE  OthersStay(p) /\ lockFile' = lockFile /\ saver[p].phase \in Holding
  BY <1>6, <1>s, SaverMoves DEF CreateTmp, WriteTmp, Rename, Holding, SaverGoes
<1>7. ASSUME NEW p \in Savers, WriteFails(p)
      PROVE  OthersStay(p) /\ lockFile' = lockFile /\ saver[p].phase \in Holding
  BY <1>7, <1>s DEF WriteFails, disk, Holding, OthersStay
<1>8. ASSUME NEW p \in Savers, TakeLock(p)
      PROVE  /\ \A q \in Savers : saver'[q].phase \in Holding => lockFile' = "fresh"
             /\ \A q, o \in Savers : saver'[q].phase \in Holding /\ saver'[o].phase \in Holding => q = o
  <2>1. OthersStay(p) /\ lockFile' = "fresh" /\ lockFile = Nothing
    BY <1>8, <1>s, SaverMoves DEF TakeLock, SaverGoes
  <2>2. \A q \in Savers : saver[q].phase \notin Holding
    BY <1>h, <2>1, StoreAssumption
  <2>3. QED
    BY <2>1, <2>2 DEF OthersStay
<1>9. ASSUME NEW p \in Savers, BreakLock(p)
      PROVE  /\ \A q \in Savers : saver'[q].phase \in Holding => lockFile' = "fresh"
             /\ \A q, o \in Savers : saver'[q].phase \in Holding /\ saver'[o].phase \in Holding => q = o
  <2>1. OthersStay(p) /\ saver'[p].phase = "locking" /\ lockFile # "fresh"
    BY <1>9, <1>s, SaverMoves DEF BreakLock, SaverGoes
  <2>2. \A q \in Savers : saver[q].phase \notin Holding
    BY <1>h, <2>1
  <2>3. \A q \in Savers : saver'[q].phase \notin Holding
    BY <2>1, <2>2 DEF OthersStay, Holding
  <2>4. QED
    BY <2>3
<1>10. ASSUME NEW p \in Savers, Unlock(p)
      PROVE  /\ \A q \in Savers : saver'[q].phase \in Holding => lockFile' = "fresh"
             /\ \A q, o \in Savers : saver'[q].phase \in Holding /\ saver'[o].phase \in Holding => q = o
  <2>1. OthersStay(p) /\ saver'[p].phase = "idle" /\ ~\E q \in Savers \ {p} : saver[q].phase \in Holding
    BY <1>10, <1>s, SaverRests DEF Unlock
  <2>2. \A q \in Savers : saver'[q].phase \notin Holding
    BY <2>1 DEF OthersStay, Holding
  <2>3. QED
    BY <2>2
<1>11. CASE LockAges
  BY <1>11 DEF LockAges
<1>12. CASE Crash \/ EndShutdown
  BY <1>12, IdleType DEF Crash, EndShutdown, Holding
<1>13. CASE Restart
  <2>1. PICK p \in Savers : OthersStay(p) /\ saver'[p].phase = "collecting"
    BY <1>13, <1>s, SaversStart DEF OthersStay
  <2>2. QED
    BY <1>13, <1>n, <2>1 DEF Restart, disk, Holding
<1>14. CASE (\E s \in Sessions : GoesUnsound(s)) \/ UNCHANGED storeVars
  BY <1>14, <1>h DEF GoesUnsound, storeVars, disk
<1>15. QED
  BY <1>n, <1>1, <1>2, <1>3, <1>4, <1>5, <1>6, <1>7, <1>8, <1>9, <1>10, <1>11, <1>12, <1>13, <1>14
     DEF StoreNext, Saves

LEMMA FilesStep ==
  ASSUME StoreTypeOK, LockIsHeld, FilesAreWhole, [StoreNext]_storeVars
  PROVE  FilesAreWhole'
<1> DEFINE Whole == /\ \A p \in Savers : saver[p].phase = "writing" => tmpFile = Half
                    /\ \A p \in Savers : saver[p].phase = "renaming" => tmpFile = saver[p].records
                    /\ storeFile # Half
<1> SUFFICES ASSUME ~raced'
             PROVE  Whole'
  BY DEF FilesAreWhole
<1>s. saver \in [Savers -> SaverStates] /\ raced \in BOOLEAN
  BY DEF StoreTypeOK
<1>r. ~raced
  BY DEF StoreNext, Saves, Operate, Collect, Collected, TakeLock, SeeOldLock, BreakLock, LockTimesOut,
         CreateTmp, WriteTmp, WriteFails, Rename, Unlock, BeginShutdown, GoesUnsound, LockAges, Crash,
         Restart, EndShutdown, storeVars
<1>w. Whole
  BY <1>r DEF FilesAreWhole
<1>h. \A p, q \in Savers : saver[p].phase \in Holding /\ saver[q].phase \in Holding => p = q
  BY <1>r DEF LockIsHeld
<1>n. ASSUME NEW p \in Savers, OthersStay(p), tmpFile' = tmpFile, storeFile' = storeFile,
             saver'[p].phase \notin {"writing", "renaming"}
      PROVE  Whole'
  BY <1>w, <1>n DEF OthersStay
<1>1. ASSUME NEW p \in Savers, \/ \E s \in Sessions : Operate(p, s)
                               \/ BeginShutdown(p)
      PROVE  Whole'
  BY <1>1, <1>n, <1>s, SaverBegins DEF Operate, BeginShutdown, disk
<1>2. ASSUME NEW p \in Savers, NEW s \in Sessions, Collect(p, s)
      PROVE  Whole'
  BY <1>2, <1>n, <1>s, SaverCollects DEF Collect, disk
<1>3. ASSUME NEW p \in Savers, Collected(p) \/ SeeOldLock(p) \/ TakeLock(p) \/ BreakLock(p)
      PROVE  Whole'
  BY <1>3, <1>n, <1>s, SaverMoves DEF Collected, SeeOldLock, TakeLock, BreakLock, disk, SaverGoes
<1>4. ASSUME NEW p \in Savers, LockTimesOut(p) \/ Unlock(p)
      PROVE  Whole'
  BY <1>4, <1>n, <1>s, SaverRests DEF LockTimesOut, Unlock, disk
<1>5. ASSUME NEW p \in Savers, WriteFails(p)
      PROVE  Whole'
  <2>1. OthersStay(p) /\ saver'[p].phase = "unlocking"
    BY <1>5, <1>s DEF WriteFails, OthersStay
  <2>2. QED
    BY <1>5, <1>n, <2>1 DEF WriteFails, disk
<1>6. ASSUME NEW p \in Savers, CreateTmp(p)
      PROVE  Whole'
  <2>1. saver[p].phase = "creating" /\ saver'[p].phase = "writing" /\ OthersStay(p)
    BY <1>6, <1>s, SaverMoves DEF CreateTmp, SaverGoes
  <2>2. \A q \in Savers : q # p => saver'[q].phase \notin Holding
    BY <1>h, <2>1 DEF OthersStay, Holding
  <2>3. QED
    BY <1>6, <1>w, <2>1, <2>2 DEF CreateTmp, Holding
<1>7. ASSUME NEW p \in Savers, WriteTmp(p)
      PROVE  Whole'
  <2>1. saver[p].phase = "writing" /\ SaverGoes(p, "renaming")
    BY <1>7, <1>s, SaverMoves DEF WriteTmp
  <2>2. \A q \in Savers : q # p => saver'[q].phase \notin Holding /\ saver[q].phase \notin Holding
    BY <1>h, <2>1 DEF OthersStay, Holding, SaverGoes
  <2>3. tmpFile # Nothing
    BY <1>w, <2>1, StoreAssumption
  <2>4. tmpFile' = saver[p].records /\ storeFile' = storeFile
    BY <1>7, <2>2, <2>3 DEF WriteTmp, Holding
  <2>5. QED
    BY <1>w, <2>1, <2>2, <2>4 DEF SaverGoes, Holding
<1>8. ASSUME NEW p \in Savers, Rename(p)
      PROVE  Whole'
  <2>1. saver[p].phase = "renaming" /\ SaverGoes(p, "unlocking")
    BY <1>8, <1>s, SaverMoves DEF Rename
  <2>2. \A q \in Savers : saver'[q].phase \notin {"writing", "renaming"}
    BY <1>h, <2>1 DEF OthersStay, Holding, SaverGoes
  <2>3. tmpFile \in StoreRecords
    BY <1>s, <1>w, <2>1 DEF SaverStates
  <2>4. storeFile' # Half
    BY <1>8, <2>3, StoreAssumption DEF Rename
  <2>5. QED
    BY <2>2, <2>4
<1>9. CASE LockAges \/ (\E s \in Sessions : GoesUnsound(s)) \/ UNCHANGED storeVars
  BY <1>9, <1>w DEF LockAges, GoesUnsound, storeVars, disk
<1>10. CASE Crash \/ EndShutdown
  BY <1>10, <1>w, IdleType DEF Crash, EndShutdown, disk
<1>11. CASE Restart
  <2>1. PICK p \in Savers : OthersStay(p) /\ saver'[p].phase = "collecting"
    BY <1>11, <1>s, SaversStart DEF OthersStay
  <2>2. QED
    BY <1>11, <1>n, <2>1 DEF Restart, disk
<1>12. QED
  BY <1>1, <1>2, <1>3, <1>4, <1>5, <1>6, <1>7, <1>8, <1>9, <1>10, <1>11 DEF StoreNext, Saves

LEMMA OneSaveStep ==
  ASSUME StoreTypeOK, SaversAreUp, OneSave, [StoreNext]_storeVars
  PROVE  OneSave'
<1> SUFFICES ASSUME ~overlapped'
             PROVE  \A p, q \in Savers : saver'[p].phase # "idle" /\ saver'[q].phase # "idle" => p = q
  BY DEF OneSave
<1>s. saver \in [Savers -> SaverStates] /\ overlapped \in BOOLEAN
  BY DEF StoreTypeOK
<1>r. ~overlapped
  BY DEF StoreNext, Saves, Operate, StartsSave, Collect, Collected, TakeLock, SeeOldLock, BreakLock,
         LockTimesOut, CreateTmp, WriteTmp, WriteFails, Rename, Unlock, BeginShutdown, GoesUnsound,
         LockAges, Crash, Restart, EndShutdown, storeVars
<1>h. \A p, q \in Savers : saver[p].phase # "idle" /\ saver[q].phase # "idle" => p = q
  BY <1>r DEF OneSave
<1>n. ASSUME NEW p \in Savers, OthersStay(p), saver[p].phase # "idle"
      PROVE  \A o, q \in Savers : saver'[o].phase # "idle" /\ saver'[q].phase # "idle" => o = q
  BY <1>h, <1>n DEF OthersStay
<1>b. ASSUME NEW p \in Savers, StartsSave(p)
      PROVE  \A o, q \in Savers : saver'[o].phase # "idle" /\ saver'[q].phase # "idle" => o = q
  <2>1. OthersStay(p) /\ \A q \in Savers : saver[q].phase = "idle"
    BY <1>b, <1>s, SaverBegins
  <2>2. QED
    BY <2>1 DEF OthersStay
<1>1. ASSUME NEW p \in Savers, (\E s \in Sessions : Operate(p, s)) \/ BeginShutdown(p)
      PROVE  \A o, q \in Savers : saver'[o].phase # "idle" /\ saver'[q].phase # "idle" => o = q
  BY <1>1, <1>b DEF Operate, BeginShutdown
<1>2. ASSUME NEW p \in Savers, Saves(p)
      PROVE  OthersStay(p) /\ saver[p].phase # "idle"
  <2>1. ASSUME NEW s \in Sessions, Collect(p, s)
        PROVE  OthersStay(p) /\ saver[p].phase # "idle"
    BY <1>s, <2>1, SaverCollects
  <2>2. ASSUME Collected(p) \/ TakeLock(p) \/ SeeOldLock(p) \/ BreakLock(p) \/ CreateTmp(p)
                 \/ WriteTmp(p) \/ Rename(p)
        PROVE  OthersStay(p) /\ saver[p].phase # "idle"
    BY <1>s, <2>2, SaverMoves
       DEF Collected, TakeLock, SeeOldLock, BreakLock, CreateTmp, WriteTmp, Rename, SaverGoes
  <2>3. ASSUME LockTimesOut(p) \/ Unlock(p)
        PROVE  OthersStay(p) /\ saver[p].phase # "idle"
    BY <1>s, <2>3, SaverRests DEF LockTimesOut, Unlock
  <2>4. ASSUME WriteFails(p)
        PROVE  OthersStay(p) /\ saver[p].phase # "idle"
    BY <1>s, <2>4 DEF WriteFails, OthersStay
  <2>5. QED
    BY <1>2, <2>1, <2>2, <2>3, <2>4 DEF Saves
<1>3. CASE LockAges \/ (\E s \in Sessions : GoesUnsound(s)) \/ UNCHANGED storeVars
  BY <1>3, <1>h DEF LockAges, GoesUnsound, storeVars, disk
<1>4. CASE Crash \/ EndShutdown
  BY <1>4, IdleType DEF Crash, EndShutdown
\* The processes of before are gone.
<1>5. CASE Restart
  <2>1. PICK p \in Savers : OthersStay(p)
    BY <1>5, <1>s, SaversStart DEF OthersStay
  <2>2. \A q \in Savers : saver[q].phase = "idle"
    BY <1>5 DEF Restart, SaversAreUp
  <2>3. QED
    BY <2>1, <2>2 DEF OthersStay
<1>6. QED
  BY <1>n, <1>1, <1>2, <1>3, <1>4, <1>5 DEF StoreNext

LEMMA SaversUpStep ==
  ASSUME StoreTypeOK, SaversAreUp, [StoreNext]_storeVars
  PROVE  SaversAreUp'
<1>s. saver \in [Savers -> SaverStates]
  BY DEF StoreTypeOK
<1>n. ASSUME NEW p \in Savers, OthersStay(p), saver[p].phase # "idle" \/ service \in {"up", "stopping"},
             service' = service \/ service' \in {"up", "stopping"}
      PROVE  SaversAreUp'
  BY <1>n DEF SaversAreUp, OthersStay
<1>1. ASSUME NEW p \in Savers, (\E s \in Sessions : Operate(p, s)) \/ BeginShutdown(p)
      PROVE  SaversAreUp'
  <2>1. OthersStay(p)
    BY <1>1, <1>s, SaverBegins DEF Operate, BeginShutdown
  <2>2. QED
    BY <1>1, <1>n, <2>1 DEF Operate, BeginShutdown
<1>2. ASSUME NEW p \in Savers, Saves(p)
      PROVE  SaversAreUp'
  <2>1. ASSUME NEW s \in Sessions, Collect(p, s)
        PROVE  SaversAreUp'
    BY <1>n, <1>s, <2>1, SaverCollects DEF Collect
  <2>2. ASSUME Collected(p) \/ TakeLock(p) \/ SeeOldLock(p) \/ BreakLock(p) \/ CreateTmp(p)
                 \/ WriteTmp(p) \/ Rename(p)
        PROVE  SaversAreUp'
    BY <1>n, <1>s, <2>2, SaverMoves
       DEF Collected, TakeLock, SeeOldLock, BreakLock, CreateTmp, WriteTmp, Rename, SaverGoes
  <2>3. ASSUME LockTimesOut(p) \/ Unlock(p)
        PROVE  SaversAreUp'
    BY <1>n, <1>s, <2>3, SaverRests DEF LockTimesOut, Unlock
  <2>4. ASSUME WriteFails(p)
        PROVE  SaversAreUp'
    <3>1. OthersStay(p) /\ saver[p].phase # "idle"
      BY <1>s, <2>4 DEF WriteFails, OthersStay
    <3>2. QED
      BY <1>n, <2>4, <3>1 DEF WriteFails
  <2>5. QED
    BY <1>2, <2>1, <2>2, <2>3, <2>4 DEF Saves
<1>3. CASE LockAges \/ (\E s \in Sessions : GoesUnsound(s)) \/ UNCHANGED storeVars
  BY <1>3 DEF LockAges, GoesUnsound, storeVars, disk, SaversAreUp
<1>4. CASE Crash \/ EndShutdown
  BY <1>4, IdleType DEF Crash, EndShutdown, SaversAreUp
<1>5. CASE Restart
  BY <1>5 DEF Restart, SaversAreUp
<1>6. QED
  BY <1>1, <1>2, <1>3, <1>4, <1>5 DEF StoreNext

LEMMA VersionsStep ==
  ASSUME StoreInv, [StoreNext]_storeVars
  PROVE  VersionsKept'
<1> DEFINE Acked == \A s \in Sessions : acked[s] <= storeFile[s]
           Known == service \in {"up", "stopping"} => \A s \in Sessions : storeFile[s] <= memory[s]
           Saved(p) == /\ saver[p].due = memory
                       /\ \A s \in Sessions : saver[p].records[s] \in {0, memory[s]}
           All   == \A p \in Savers : saver[p].phase # "idle" => Saved(p)
<1> SUFFICES ASSUME ~raced', ~overlapped', ~unread'
             PROVE  Acked' /\ Known' /\ All'
  BY DEF VersionsKept
<1>s. /\ saver \in [Savers -> SaverStates] /\ memory \in StoreRecords /\ acked \in StoreRecords
      /\ raced \in BOOLEAN /\ overlapped \in BOOLEAN /\ unread \in BOOLEAN
  BY DEF StoreInv, StoreTypeOK
<1>r. ~raced /\ ~overlapped /\ ~unread
  BY <1>s DEF StoreNext, Saves, Operate, StartsSave, Collect, Collected, TakeLock, SeeOldLock, BreakLock,
         LockTimesOut, CreateTmp, WriteTmp, WriteFails, Rename, Unlock, BeginShutdown, GoesUnsound,
         LockAges, Crash, Restart, EndShutdown, storeVars
<1>v. Acked /\ Known /\ All
  BY <1>r DEF StoreInv, VersionsKept
<1>f. storeFile \in StoreRecords
  BY <1>r DEF StoreInv, FilesAreWhole, StoreTypeOK
<1>e. \A s \in Sessions : Empty[s] = 0 /\ memory[s] \in Nat /\ storeFile[s] \in Nat /\ acked[s] \in Nat
  BY <1>s, <1>f DEF Empty, StoreRecords
\* A step that leaves the versions and the file alone.
<1>n. ASSUME NEW p \in Savers, OthersStay(p), acked' = acked, storeFile' = storeFile, memory' = memory,
             service' = service \/ service \in {"up", "stopping"}, saver'[p].phase # "idle" => Saved(p)'
      PROVE  Acked' /\ Known' /\ All'
  BY <1>v, <1>n DEF OthersStay
<1>1. ASSUME NEW p \in Savers, NEW s \in Sessions, Operate(p, s)
      PROVE  Acked' /\ Known' /\ All'
  <2>1. /\ OthersStay(p) /\ saver'[p].records = Empty /\ saver'[p].due = memory'
        /\ \A q \in Savers : saver[q].phase = "idle"
    BY <1>1, <1>s, SaverBegins DEF Operate
  <2>2. \A t \in Sessions : memory'[t] >= memory[t] /\ memory'[t] \in Nat
    BY <1>1, <1>s, <1>e DEF Operate, StoreRecords
  <2>3. All'
    BY <1>e, <2>1 DEF OthersStay
  <2>4. Known'
    BY <1>1, <1>v, <1>e, <2>2 DEF Operate, disk
  <2>5. QED
    BY <1>1, <1>v, <2>3, <2>4 DEF Operate, disk
<1>2. ASSUME NEW p \in Savers, BeginShutdown(p)
      PROVE  Acked' /\ Known' /\ All'
  <2>1. OthersStay(p) /\ saver'[p].records = Empty /\ saver'[p].due = memory'
    BY <1>2, <1>s, SaverBegins DEF BeginShutdown
  <2>2. QED
    BY <1>2, <1>n, <1>e, <2>1 DEF BeginShutdown, disk
<1>3. ASSUME NEW p \in Savers, NEW s \in Sessions, Collect(p, s)
      PROVE  Acked' /\ Known' /\ All'
  <2>1. /\ OthersStay(p) /\ saver'[p].due = saver[p].due /\ saver[p].phase # "idle"
        /\ \A t \in Sessions : \/ saver'[p].records[t] = saver[p].records[t]
                               \/ saver'[p].records[t] \in {0, memory[t]}
    BY <1>3, <1>s, SaverCollects
  <2>2. memory' = memory /\ acked' = acked /\ storeFile' = storeFile /\ service' = service
    BY <1>3 DEF Collect, disk
  <2>3. Saved(p)'
    BY <1>v, <2>1, <2>2
  <2>4. QED
    BY <1>n, <2>1, <2>2, <2>3
\* Along its way to the file a save changes neither.
<1>4. ASSUME NEW p \in Savers, Collected(p) \/ TakeLock(p) \/ SeeOldLock(p) \/ BreakLock(p) \/ CreateTmp(p)
      PROVE  Acked' /\ Known' /\ All'
  <2>1. /\ OthersStay(p) /\ saver[p].phase # "idle"
        /\ saver'[p].records = saver[p].records /\ saver'[p].due = saver[p].due
    BY <1>4, <1>s, SaverMoves DEF Collected, TakeLock, SeeOldLock, BreakLock, CreateTmp, SaverGoes
  <2>2. memory' = memory /\ acked' = acked /\ storeFile' = storeFile /\ service' = service
    BY <1>4 DEF Collected, TakeLock, SeeOldLock, BreakLock, CreateTmp, disk
  <2>3. QED
    BY <1>v, <1>n, <2>1, <2>2
<1>5. ASSUME NEW p \in Savers, LockTimesOut(p) \/ Unlock(p)
      PROVE  Acked' /\ Known' /\ All'
  BY <1>5, <1>n, <1>s, SaverRests DEF LockTimesOut, Unlock, disk
<1>6. ASSUME NEW p \in Savers, WriteFails(p)
      PROVE  Acked' /\ Known' /\ All'
  <2>1. /\ OthersStay(p) /\ saver[p].phase # "idle"
        /\ saver'[p].records = saver[p].records /\ saver'[p].due = saver[p].due
    BY <1>6, <1>s DEF WriteFails, OthersStay, SaverStates
  <2>2. memory' = memory /\ acked' = acked /\ storeFile' = storeFile /\ service' = service
    BY <1>6 DEF WriteFails, disk
  <2>3. QED
    BY <1>v, <1>n, <2>1, <2>2
<1>7. ASSUME NEW p \in Savers, WriteTmp(p)
      PROVE  Acked' /\ Known' /\ All'
  <2>1. saver[p].phase = "writing" /\ SaverGoes(p, "renaming")
    BY <1>7, <1>s, SaverMoves DEF WriteTmp
  <2>2. tmpFile # Nothing
    BY <1>r, <2>1, StoreAssumption DEF StoreInv, FilesAreWhole
  <2>3. memory' = memory /\ acked' = acked /\ storeFile' = storeFile /\ service' = service
    BY <1>7, <2>2 DEF WriteTmp
  <2>4. QED
    BY <1>v, <1>n, <2>1, <2>3 DEF SaverGoes
\* The file becomes what was collected, which is what is in memory.
<1>8. ASSUME NEW p \in Savers, Rename(p)
      PROVE  Acked' /\ Known' /\ All'
  <2>1. saver[p].phase = "renaming" /\ SaverGoes(p, "unlocking") /\ Saved(p)
    BY <1>8, <1>s, <1>v, SaverMoves DEF Rename
  <2>2. tmpFile = saver[p].records /\ tmpFile \in StoreRecords
    BY <1>r, <1>s, <2>1 DEF StoreInv, FilesAreWhole, SaverStates
  <2>3. /\ storeFile' = saver[p].records /\ memory' = memory /\ service' = service
        /\ acked' = [s \in Sessions |-> IF saver[p].records[s] = 0 THEN 0
                                       ELSE LaterOf(acked[s], saver[p].due[s])]
    BY <1>8, <2>2, StoreAssumption DEF Rename
  <2>4. service \in {"up", "stopping"}
    BY <2>1 DEF StoreInv, SaversAreUp
  <2>5. \A s \in Sessions : acked[s] <= memory[s]
    BY <1>v, <1>e, <2>4
  <2>6. ASSUME NEW s \in Sessions
        PROVE  acked'[s] <= storeFile'[s] /\ storeFile'[s] <= memory'[s]
    <3>1. saver[p].records[s] \in {0, memory[s]} /\ saver[p].due[s] = memory[s]
      BY <2>1
    <3>2. acked'[s] = IF saver[p].records[s] = 0 THEN 0 ELSE LaterOf(acked[s], memory[s])
      BY <2>3, <3>1
    <3>3. QED
      BY <1>e, <2>3, <2>5, <3>1, <3>2 DEF LaterOf
  <2>7. All'
    BY <1>v, <2>1, <2>3 DEF SaverGoes, OthersStay
  <2>8. QED
    BY <2>6, <2>7
<1>9. CASE LockAges \/ (\E s \in Sessions : GoesUnsound(s)) \/ UNCHANGED storeVars
  BY <1>9, <1>v DEF LockAges, GoesUnsound, storeVars, disk
<1>10. CASE Crash \/ EndShutdown
  BY <1>10, <1>v, IdleType DEF Crash, EndShutdown, disk
\* What starts again has what the file held.
<1>11. CASE Restart
  <2>1. PICK p \in Savers : OthersStay(p) /\ saver'[p].records = Empty /\ saver'[p].due = memory'
    BY <1>11, <1>s, SaversStart DEF OthersStay
  <2>2. \A q \in Savers : saver[q].phase = "idle"
    BY <1>11 DEF Restart, StoreInv, SaversAreUp
  <2>3. PICK fails \in {storeFile = Half, TRUE} :
          LET records == IF fails THEN Empty ELSE storeFile
          IN  /\ memory' = [s \in Sessions |-> IF records[s] > 0 THEN records[s] ELSE 1]
              /\ unread' = (unread \/ fails)
    BY <1>11 DEF Restart
  <2>4. memory' = [s \in Sessions |-> IF storeFile[s] > 0 THEN storeFile[s] ELSE 1]
    BY <1>r, <2>3
  <2>5. acked' = acked /\ storeFile' = storeFile
    BY <1>11 DEF Restart, disk
  <2>6. Known'
    BY <1>e, <2>4, <2>5
  <2>7. All'
    BY <1>e, <2>1, <2>2 DEF OthersStay
  <2>8. QED
    BY <1>v, <2>5, <2>6, <2>7
<1>12. QED
  BY <1>1, <1>2, <1>3, <1>4, <1>5, <1>6, <1>7, <1>8, <1>9, <1>10, <1>11 DEF StoreNext, Saves

\* Whatever crashes or fails, the store is a complete one; and what a save left there is
\* not lost again, and not newer than what runs - with the exceptions the property names.
THEOREM StoreKeepsWhatItSaved == StoreSpec => []SavedStaysSaved
<1>1. StoreInv /\ [StoreNext]_storeVars => StoreInv'
  BY StoreTypeStep, LockStep, FilesStep, SaversUpStep, OneSaveStep, VersionsStep DEF StoreInv
<1>2. StoreInv => SavedStaysSaved
  BY DEF StoreInv, FilesAreWhole, VersionsKept, SavedStaysSaved
<1>3. QED
  BY <1>1, <1>2, StoreInvInit, PTL DEF StoreSpec

-----------------------------------------------------------------------------
(* The runners of a session. *)

CallPhases == {"new", "claimed", "registered", "looping", "asking", "ending", "released", "over"}
Someone == Calls \cup {Nobody}
CallStates == [phase : CallPhases, execution : Someone, generation : Nat]
Entries == [call : Someone, generation : Nat]
Records == [id : Someone, run : Someone, state : {"none", "running", "done", "exited", "stopped"}]

RunsTypeOK == call \in [Calls -> CallStates] /\ entry \in Entries /\ record \in Records /\ laneOf \in Someone

Driving(c) == call[c].phase \in {"registered", "looping", "asking"}

\* Whoever drives the session, or is about to, is the one that is registered.
DriverIsRegistered == \A c \in Calls : Driving(c) => entry.call = c

RunsInv == RunsTypeOK /\ DriverIsRegistered

LEMMA RunsInvInit == RunsInit => RunsInv
BY DEF RunsInit, RunsInv, RunsTypeOK, DriverIsRegistered, Driving, NoEntry, CallStates, CallPhases, Entries,
       Records, Someone

\* One call goes to another phase.  It leaves the others alone, and if it drives the
\* session afterwards it is registered.
LEMMA OneCallMoves ==
  ASSUME RunsInv, NEW c \in Calls, NEW state \in CallStates, call' = [call EXCEPT ![c] = state],
         entry' \in Entries, record' \in Records, laneOf' \in Someone,
         \A d \in Calls \ {c} : Driving(d) => entry'.call = entry.call,
         state.phase \in {"registered", "looping", "asking"} => entry'.call = c
  PROVE  RunsInv'
<1>1. RunsTypeOK'
  BY DEF RunsInv, RunsTypeOK
<1>2. ASSUME NEW d \in Calls, Driving(d)' PROVE entry'.call = d
  <2>1. CASE d = c
    BY <1>2, <2>1 DEF RunsInv, RunsTypeOK, Driving
  <2>2. CASE d # c
    <3>1. Driving(d)
      BY <1>2, <2>2 DEF RunsInv, RunsTypeOK, Driving
    <3>2. QED
      BY <2>2, <3>1 DEF RunsInv, DriverIsRegistered
  <2>3. QED
    BY <2>1, <2>2
<1>3. QED
  BY <1>1, <1>2 DEF RunsInv, DriverIsRegistered

\* What a call that goes to another phase writes.
LEMMA GoesWrites ==
  ASSUME RunsInv, NEW c \in Calls, NEW to \in CallPhases, Goes(c, to)
  PROVE  \E state \in CallStates : state.phase = to /\ call' = [call EXCEPT ![c] = state]
<1> DEFINE state == [call[c] EXCEPT !.phase = to]
<1>1. state \in CallStates /\ state.phase = to
  BY DEF RunsInv, RunsTypeOK, CallStates
<1>2. call' = [call EXCEPT ![c] = state]
  BY DEF Goes
<1>3. QED
  BY <1>1, <1>2

\* The same of a call that goes to a phase and keeps the rest of its state.
LEMMA GoesTo ==
  ASSUME RunsInv, NEW c \in Calls, NEW to \in CallPhases, Goes(c, to),
         entry' \in Entries, record' \in Records, laneOf' \in Someone,
         \A d \in Calls \ {c} : Driving(d) => entry'.call = entry.call,
         to \in {"registered", "looping", "asking"} => entry'.call = c
  PROVE  RunsInv'
<1>1. PICK state \in CallStates : state.phase = to /\ call' = [call EXCEPT ![c] = state]
  BY GoesWrites
<1>2. QED
  BY <1>1, OneCallMoves

\* With nobody registered, nobody drives.
LEMMA NobodyDrives ==
  ASSUME RunsInv, entry = NoEntry, NEW d \in Calls
  PROVE  ~Driving(d)
BY RunsAssumption DEF RunsInv, DriverIsRegistered, NoEntry, Calls

\* A guard that is dropped removes a registration that is its own.
LEMMA DropGuardStep ==
  ASSUME RunsInv, NEW c \in Calls, DropGuard(c), record' \in Records, laneOf' \in Someone
  PROVE  RunsInv'
<1>1. \A d \in Calls \ {c} : Driving(d) => entry'.call = entry.call
  BY DEF DropGuard, RunsInv, DriverIsRegistered
<1>2. entry' \in Entries
  BY DEF DropGuard, NoEntry, RunsInv, RunsTypeOK, Entries, Someone
<1>3. Goes(c, "over")
  BY DEF DropGuard
<1>4. QED
  BY <1>1, <1>2, <1>3, GoesTo DEF CallPhases

LEMMA RegisterStep ==
  ASSUME RunsInv, NEW c \in Calls, Register(c)
  PROVE  RunsInv'
<1>1. record' \in Records /\ laneOf' \in Someone
  BY DEF Register, RunsInv, RunsTypeOK
<1>2. CASE entry = NoEntry
  <2>1. entry' = [call |-> c, generation |-> 0] /\ Goes(c, "registered")
    BY <1>2 DEF Register
  <2>2. entry' \in Entries /\ entry'.call = c
    BY <2>1 DEF Entries, Someone
  <2>3. QED
    BY <1>1, <1>2, <2>1, <2>2, NobodyDrives, GoesTo DEF CallPhases
<1>3. CASE entry # NoEntry
  <2>1. entry'.call = entry.call /\ entry' \in Entries /\ Goes(c, "over")
    BY <1>3 DEF Register, RunsInv, RunsTypeOK, Entries
  <2>2. QED
    BY <1>1, <2>1, GoesTo DEF CallPhases
<1>4. QED
  BY <1>2, <1>3

LEMMA InstallStep ==
  ASSUME RunsInv, NEW c \in Calls, Install(c)
  PROVE  RunsInv'
<1> DEFINE state == [call[c] EXCEPT !.phase = "looping", !.execution = record'.id]
<1>1. record' \in Records /\ laneOf' = laneOf
  BY DEF Install, RunsInv, RunsTypeOK, Records, Someone, Calls
<1>2. state \in CallStates /\ state.phase = "looping"
  BY <1>1 DEF RunsInv, RunsTypeOK, CallStates, CallPhases, Records
<1>3. call' = [call EXCEPT ![c] = state]
  <2>1. call' = [call EXCEPT ![c].phase = "looping", ![c].execution = record'.id]
    BY Zenon DEF Install
  <2> DEFINE id == record'.id
  <2>2. call' = [call EXCEPT ![c].phase = "looping", ![c].execution = id]
    BY <2>1
  <2> HIDE DEF id
  <2>3. call' = [call EXCEPT ![c] = [call[c] EXCEPT !.phase = "looping", !.execution = id]]
    BY <2>2 DEF RunsInv, RunsTypeOK
  <2>4. QED
    BY <2>3 DEF id
<1>4. entry' = entry /\ entry.call = c
  BY DEF Install, At, RunsInv, DriverIsRegistered, Driving
<1>5. QED
  BY <1>1, <1>2, <1>3, <1>4, OneCallMoves DEF RunsInv, RunsTypeOK

LEMMA LoopEndsStep ==
  ASSUME RunsInv, NEW c \in Calls, LoopEnds(c)
  PROVE  RunsInv'
<1>1. Goes(c, IF c \in ActionCalls THEN "asking" ELSE "ending")
  BY DEF LoopEnds
<1>2. entry' = entry /\ entry.call = c /\ record' = record /\ laneOf' = laneOf
  BY DEF LoopEnds, At, RunsInv, DriverIsRegistered, Driving
<1>3. QED
  BY <1>1, <1>2, GoesTo DEF RunsInv, RunsTypeOK, CallPhases

LEMMA AsksStep ==
  ASSUME RunsInv, NEW c \in Calls, AsksToContinue(c)
  PROVE  RunsInv'
<1>1. entry.call = c /\ record' = record /\ laneOf' = laneOf
  BY DEF AsksToContinue, At, RunsInv, DriverIsRegistered, Driving
<1>2. CASE laneOf \in ActionCalls \/ entry.generation # call[c].generation
  <2> DEFINE state == [call[c] EXCEPT !.phase = "looping", !.generation = entry.generation]
  <2>1. state \in CallStates /\ state.phase = "looping"
    BY DEF RunsInv, RunsTypeOK, CallStates, CallPhases, Entries
  <2>2. call' = [call EXCEPT ![c] = state] /\ entry' = entry
    BY <1>2 DEF AsksToContinue
  <2>3. QED
    BY <1>1, <2>1, <2>2, OneCallMoves DEF RunsInv, RunsTypeOK
<1>3. CASE ~(laneOf \in ActionCalls \/ entry.generation # call[c].generation)
  <2>1. entry' = NoEntry /\ Goes(c, "released")
    BY <1>3 DEF AsksToContinue
  <2>2. \A d \in Calls \ {c} : ~Driving(d)
    BY <1>1 DEF RunsInv, DriverIsRegistered
  <2>3. NoEntry \in Entries
    BY DEF NoEntry, Entries, Someone
  <2>4. QED
    BY <1>1, <2>1, <2>2, <2>3, GoesTo DEF RunsInv, RunsTypeOK, CallPhases
<1>4. QED
  BY <1>2, <1>3

\* Steps that leave the registration alone and bring no call nearer to driving.
LEMMA ClaimOrAbandonStep ==
  ASSUME RunsInv, NEW c \in Calls, Claim(c) \/ Abandon(c)
  PROVE  RunsInv'
<1>1. entry' = entry /\ record' = record /\ laneOf' \in Someone
  BY DEF Claim, Abandon, RunsInv, RunsTypeOK, Someone
<1>2. Goes(c, "claimed") \/ Goes(c, "over")
  BY DEF Claim, Abandon
<1>3. QED
  BY <1>1, <1>2, GoesTo DEF RunsInv, RunsTypeOK, CallPhases

\* Steps that move no call and no registration.
LEMMA QuietStep ==
  ASSUME RunsInv, UNCHANGED <<entry, call>>, record' \in Records, laneOf' \in Someone
  PROVE  RunsInv'
BY DEF RunsInv, RunsTypeOK, DriverIsRegistered, Driving

LEMMA RunsInvNext == RunsInv /\ [RunsNext]_runVars => RunsInv'
<1> SUFFICES ASSUME RunsInv, [RunsNext]_runVars PROVE RunsInv'
  OBVIOUS
<1>1. CASE UNCHANGED runVars
  BY <1>1, QuietStep DEF runVars, RunsInv, RunsTypeOK
<1>2. CASE Halt
  <2>1. record' \in Records /\ laneOf' \in Someone
    BY <1>2 DEF Halt, RunsInv, RunsTypeOK, Records, Someone
  <2>2. QED
    BY <1>2, <2>1, QuietStep DEF Halt
<1>3. ASSUME NEW e \in cleanups, Cleanup(e) PROVE RunsInv'
  <2>1. record' \in Records /\ laneOf' = laneOf
    BY <1>3 DEF Cleanup, RunsInv, RunsTypeOK, Records
  <2>2. QED
    BY <1>3, <2>1, QuietStep DEF Cleanup, RunsInv, RunsTypeOK
<1>4. ASSUME NEW c \in Calls, Claim(c) \/ Register(c) \/ Abandon(c) \/ RunnerSteps(c) \/ Dies(c)
      PROVE  RunsInv'
  <2>1. CASE Claim(c) \/ Abandon(c)
    BY <2>1, ClaimOrAbandonStep
  <2>2. CASE Register(c)
    BY <2>2, RegisterStep
  <2>3. CASE Install(c)
    BY <2>3, InstallStep
  <2>4. CASE Works(c)
    BY <2>4, QuietStep DEF Works, RunsInv, RunsTypeOK, Someone
  <2>5. CASE LoopEnds(c)
    BY <2>5, LoopEndsStep
  <2>6. CASE AsksToContinue(c)
    BY <2>6, AsksStep
  <2>7. CASE Settles(c)
    <3>1. record' \in Records /\ laneOf' = laneOf
      BY <2>7 DEF Settles, RunsInv, RunsTypeOK, Records
    <3>2. QED
      BY <2>7, <3>1, DropGuardStep DEF Settles, RunsInv, RunsTypeOK
  <2>8. CASE Dies(c)
    BY <2>8, DropGuardStep DEF Dies, RunsInv, RunsTypeOK
  <2>9. QED
    BY <1>4, <2>1, <2>2, <2>3, <2>4, <2>5, <2>6, <2>7, <2>8 DEF RunnerSteps
<1>5. QED
  BY <1>1, <1>2, <1>3, <1>4 DEF RunsNext

\* Those who drive the session are among the one that is registered.
LEMMA OneIsRegistered == RunsInv => OneRunnerPerSession
<1> DEFINE drivers == {c \in Calls : call[c].phase \in {"looping", "asking"}}
<1> SUFFICES ASSUME RunsInv PROVE Cardinality(drivers) <= 1
  BY DEF OneRunnerPerSession
<1>1. drivers \subseteq {entry.call}
  BY DEF RunsInv, DriverIsRegistered, Driving
<1>2. IsFiniteSet({entry.call}) /\ Cardinality({entry.call}) = 1
  BY FS_Singleton
<1>3. Cardinality(drivers) <= Cardinality({entry.call})
  BY <1>1, <1>2, FS_Subset
<1>4. QED
  BY <1>2, <1>3

\* However calls, guards, halts and deaths interleave, only the call that is
\* registered drives the session, and so at most one does.
THEOREM RunnersExclude == RunsSpec => []OneRunnerPerSession
<1>1. QED
  BY RunsInvInit, RunsInvNext, OneIsRegistered, PTL DEF RunsSpec

-----------------------------------------------------------------------------
(* The calls of one account. *)

SlotTypeOK ==
  /\ active \in BOOLEAN
  /\ phase \in [Callers -> Phases]
  /\ waiters \in Seq(Mutators)

SlotInv == SlotTypeOK /\ OneMutationAtATime

SlotPhases == {"claimed", "granted", "running", "sleeping", "refreshing", "lost"}

LEMMA HasSlotByPhase ==
  \A c \in Mutators : HasSlot(c) <=> phase[c] \in SlotPhases
BY DEF HasSlot, HoldsSlot, SlotPhases

LEMMA SlotInvInit == Init => SlotInv
<1> SUFFICES ASSUME Init PROVE SlotInv
  OBVIOUS
<1>1. \A c \in Callers : phase[c] = "new"
  BY DEF Init
<1>2. SlotTypeOK
  BY EmptySeq DEF Init, SlotTypeOK, Phases
<1>3. \A c \in Mutators : ~HasSlot(c)
  BY <1>1 DEF HasSlot, HoldsSlot, Callers
<1>4. QED
  BY <1>2, <1>3 DEF SlotInv, OneMutationAtATime, Init

\* A future goes on without the slot, or with it: the rest stays as it is.
LEMMA EnterKeepsSlot ==
  ASSUME SlotInv, NEW c \in Callers, NEW p \in Phases, Enter(c, p), active' = active,
         waiters' \in Seq(Mutators), c \in Mutators => (HasSlot(c) <=> p \in SlotPhases)
  PROVE  SlotInv'
<1>1. SlotTypeOK'
  BY DEF SlotInv, SlotTypeOK, Enter
<1>2. \A d \in Mutators : HasSlot(d)' <=> HasSlot(d)
  BY HasSlotByPhase DEF SlotInv, SlotTypeOK, Enter, HasSlot, HoldsSlot, SlotPhases, Callers
<1>3. QED
  BY <1>1, <1>2 DEF SlotInv, OneMutationAtATime

\* The first of those in line that are still there.
LEMMA LeastIndex ==
  ASSUME NEW n \in Nat, NEW live \in SUBSET (1..n), live # {}
  PROVE  \E i \in live : \A j \in live : i <= j
<1> DEFINE segments == {1..i : i \in live}
<1>1. IsFiniteSet(1..n)
  BY FS_Interval
<1>2. segments \subseteq FiniteSubsetsOf(1..n) /\ segments # {}
  <2>1. \A i \in live : 1..i \in SUBSET (1..n) /\ 1..i \in segments
    OBVIOUS
  <2>2. QED
    BY <1>1, <2>1, FS_FiniteSubsetsOfFinite
<1>3. PICK least \in segments : \A other \in segments : <<other, least>> \notin StrictSubsetOrdering(1..n)
  <2> HIDE DEF segments
  <2> QED BY <1>2, WFMin, FS_StrictSubsetOrderingWellFounded, Zenon
<1>4. PICK i \in live : least = 1..i
  OBVIOUS
<1>5. ASSUME NEW j \in live, j < i PROVE FALSE
  <2>1. 1..j \in segments /\ 1..j \subseteq 1..n /\ least \subseteq 1..n
    BY <1>4
  <2>2. 1..j \subseteq least /\ 1..j # least
    BY <1>4, <1>5
  <2>3. <<1..j, least>> \in StrictSubsetOrdering(1..n)
    BY <2>1, <2>2 DEF StrictSubsetOrdering
  <2>4. QED
    BY <1>3, <2>1, <2>3
<1>6. QED
  BY <1>5

\* The slot's future goes: nobody is left in line, or the next has the slot.
LEMMA FinishKeepsSlot ==
  ASSUME SlotInv, NEW c \in Callers, NEW p \in {"ended", "dropped", "lost"}, FinishMutation(c, p),
         HoldsSlot(c) => p # "lost",
         ~HoldsSlot(c) /\ c \in Mutators => (HasSlot(c) <=> p = "lost")
  PROVE  SlotInv'
<1> DEFINE live == {i \in DOMAIN waiters : Alive(waiters[i])}
           next == CHOOSE i \in live : \A j \in live : i <= j
<1>1. CASE ~HoldsSlot(c)
  <2>1. Enter(c, p) /\ UNCHANGED <<active, waiters>>
    BY <1>1 DEF FinishMutation
  <2>2. p \in Phases /\ (p \in SlotPhases <=> p = "lost")
    BY DEF Phases, SlotPhases
  <2>3. QED
    BY <1>1, <2>1, <2>2, EnterKeepsSlot DEF SlotInv, SlotTypeOK
<1>2. CASE HoldsSlot(c)
  <2>1. c \in Mutators /\ HasSlot(c) /\ phase[c] # "queued" /\ active
    BY <1>2 DEF HoldsSlot, HasSlot, SlotInv, OneMutationAtATime
  <2>2. \A d \in Mutators : HasSlot(d) => d = c
    BY <2>1 DEF SlotInv, OneMutationAtATime
  <2>3. p \in Phases /\ p \notin SlotPhases
    BY <1>2 DEF Phases, SlotPhases
  <2>4. CASE live = {}
    <3>1. Enter(c, p) /\ active' = FALSE /\ waiters' = <<>>
      BY <1>2, <2>4 DEF FinishMutation
    <3>2. SlotTypeOK'
      BY <2>3, <3>1, EmptySeq DEF SlotInv, SlotTypeOK, Enter
    <3>3. \A d \in Mutators : ~HasSlot(d)'
      BY <2>2, <2>3, <3>1 DEF SlotInv, SlotTypeOK, Enter, HasSlot, HoldsSlot, SlotPhases, Callers
    <3>4. QED
      BY <3>1, <3>2, <3>3 DEF SlotInv, OneMutationAtATime
  <2>5. CASE live # {}
    <3>1. /\ phase' = [phase EXCEPT ![c] = p, ![waiters[next]] = "granted"]
          /\ waiters' = SubSeq(waiters, next + 1, Len(waiters))
          /\ active' = active
      BY <1>2, <2>5, Zenon DEF FinishMutation
    <3>2. next \in live
      <4>1. Len(waiters) \in Nat /\ live \in SUBSET (1..Len(waiters))
        BY DEF SlotInv, SlotTypeOK
      <4>2. \E i \in live : \A j \in live : i <= j
        BY <2>5, <4>1, LeastIndex
      <4>3. QED
        BY <4>2
    <3> DEFINE heir == waiters[next]
    <3>3. heir \in Mutators /\ phase[heir] = "queued" /\ heir # c /\ next \in 1..Len(waiters)
      BY <2>1, <3>2 DEF SlotInv, SlotTypeOK, Alive
    <3>4. waiters' \in Seq(Mutators)
      <4>1. next \in 1..Len(waiters) /\ waiters \in Seq(Mutators)
        BY <3>3 DEF SlotInv, SlotTypeOK
      <4> HIDE DEF next, live
      <4>2. SubSeq(waiters, next + 1, Len(waiters)) \in Seq(Mutators)
        BY <4>1, LenProperties, ElementOfSeq, SubSeqProperties
      <4>3. QED
        BY <3>1, <4>2
    <3> HIDE DEF next, live
    <3>5. phase' \in [Callers -> Phases]
      BY <2>3, <3>1, <3>3 DEF SlotInv, SlotTypeOK, Phases, Callers
    <3>6. phase'[heir] = "granted" /\ \A d \in Mutators \ {heir} : phase'[d] \notin SlotPhases
      BY <2>1, <2>2, <2>3, <3>1, <3>3, HasSlotByPhase DEF SlotInv, SlotTypeOK, Callers
    <3>7. \A d \in Mutators : HasSlot(d)' <=> d = heir
      BY <3>3, <3>6 DEF HasSlot, HoldsSlot, SlotPhases
    <3>8. QED
      BY <2>1, <3>1, <3>3, <3>4, <3>5, <3>7 DEF SlotInv, SlotTypeOK, OneMutationAtATime
  <2>6. QED
    BY <2>4, <2>5
<1>3. QED
  BY <1>1, <1>2

\* The slot is free and taken, or asked for.
LEMMA MutateStep ==
  ASSUME SlotInv, NEW c \in Callers, Mutate(c)
  PROVE  SlotInv'
<1>1. CASE active
  <2>1. Enter(c, "queued") /\ waiters' = Append(waiters, c) /\ active' = active
    BY <1>1 DEF Mutate
  <2>2. waiters' \in Seq(Mutators)
    BY <2>1 DEF Mutate, SlotInv, SlotTypeOK
  <2>3. ~HasSlot(c) /\ "queued" \notin SlotPhases /\ "queued" \in Phases
    BY DEF Mutate, HasSlot, HoldsSlot, SlotPhases, Phases
  <2>4. QED
    BY <2>1, <2>2, <2>3, EnterKeepsSlot
<1>2. CASE ~active
  <2>1. Enter(c, "claimed") /\ active' = TRUE /\ waiters' = waiters /\ c \in Mutators
    BY <1>2 DEF Mutate
  <2>2. \A d \in Mutators : ~HasSlot(d)
    BY <1>2 DEF SlotInv, OneMutationAtATime
  <2>3. phase' \in [Callers -> Phases] /\ phase'[c] = "claimed" /\ \A d \in Mutators \ {c} : phase'[d] = phase[d]
    BY <2>1 DEF SlotInv, SlotTypeOK, Enter, Phases, Callers
  <2>4. \A d \in Mutators : HasSlot(d)' <=> d = c
    BY <2>2, <2>3 DEF HasSlot, HoldsSlot
  <2>5. QED
    BY <2>1, <2>3, <2>4 DEF SlotInv, SlotTypeOK, OneMutationAtATime
<1>3. QED
  BY <1>1, <1>2

\* A future goes from one phase to another and keeps the slot, or has nothing to do
\* with it.
LEMMA KeepsSlotSteps ==
  ASSUME SlotInv, NEW c \in Callers,
         Query(c) \/ FirstAttempt(c) \/ RetryAttempt(c) \/ BacksOff(c) \/ BeginsRefresh(c)
  PROVE  SlotInv'
<1>1. active' = active /\ waiters' = waiters
  BY DEF Query, FirstAttempt, RetryAttempt, BacksOff, BeginsRefresh
<1>2. CASE Query(c)
  BY <1>1, <1>2, EnterKeepsSlot, CallsAssumption DEF Query, SlotInv, SlotTypeOK, Phases
<1>3. CASE FirstAttempt(c)
  BY <1>1, <1>3, EnterKeepsSlot, HasSlotByPhase DEF FirstAttempt, SlotInv, SlotTypeOK, Phases, SlotPhases
<1>4. CASE RetryAttempt(c)
  BY <1>1, <1>4, EnterKeepsSlot, HasSlotByPhase DEF RetryAttempt, SlotInv, SlotTypeOK, Phases, SlotPhases
<1>5. CASE BacksOff(c)
  BY <1>1, <1>5, EnterKeepsSlot, HasSlotByPhase DEF BacksOff, SlotInv, SlotTypeOK, Phases, SlotPhases
<1>6. CASE BeginsRefresh(c)
  BY <1>1, <1>6, EnterKeepsSlot, HasSlotByPhase DEF BeginsRefresh, SlotInv, SlotTypeOK, Phases, SlotPhases
<1>7. QED
  BY <1>2, <1>3, <1>4, <1>5, <1>6

\* A future returns, or is dropped.
LEMMA EndingSteps ==
  ASSUME SlotInv, NEW c \in Callers, Answered(c) \/ EndsRefresh(c) \/ TimesOut(c) \/ DropCall(c)
  PROVE  SlotInv'
<1>1. CASE Answered(c) \/ EndsRefresh(c) \/ TimesOut(c)
  <2>1. FinishMutation(c, "ended") /\ phase[c] \in {"running", "refreshing"}
    BY <1>1 DEF Answered, EndsRefresh, TimesOut, Return
  <2>2. c \in Mutators => HoldsSlot(c)
    BY <2>1 DEF HoldsSlot
  <2>3. QED
    BY <2>1, <2>2, FinishKeepsSlot
<1>2. CASE DropCall(c)
  <2>1. CASE phase[c] = "granted"
    <3>1. FinishMutation(c, "lost") /\ ~HoldsSlot(c) /\ HasSlot(c)
      BY <1>2, <2>1 DEF DropCall, HoldsSlot, HasSlot
    <3>2. QED
      BY <3>1, FinishKeepsSlot
  <2>2. CASE phase[c] # "granted"
    <3>1. FinishMutation(c, "dropped")
      BY <1>2, <2>2 DEF DropCall
    <3>2. c \in Mutators => HoldsSlot(c) \/ ~HasSlot(c)
      BY <1>2, <2>2 DEF DropCall, HoldsSlot, HasSlot
    <3>3. QED
      BY <3>1, <3>2, FinishKeepsSlot
  <2>3. QED
    BY <2>1, <2>2
<1>3. QED
  BY <1>1, <1>2

LEMMA SlotInvNext == SlotInv /\ [Next]_vars => SlotInv'
<1> SUFFICES ASSUME SlotInv, [Next]_vars PROVE SlotInv'
  OBVIOUS
<1>1. ASSUME UNCHANGED <<active, waiters, phase>> PROVE SlotInv'
  BY <1>1 DEF SlotInv, SlotTypeOK, OneMutationAtATime, HasSlot, HoldsSlot
<1>2. CASE UNCHANGED vars
  BY <1>1, <1>2 DEF vars
<1>3. CASE (\E k \in Conns : ReadEnds(k)) \/ SocketFails \/ Reconnect \/ ServerStep
  BY <1>1, <1>3 DEF ReadEnds, SocketFails, Reconnect, ServerStep
<1>4. ASSUME NEW c \in Callers, Query(c) \/ Mutate(c) \/ Polled(c) \/ DropCall(c)
      PROVE  SlotInv'
  BY <1>4, MutateStep, KeepsSlotSteps, EndingSteps DEF Polled
<1>5. QED
  BY <1>2, <1>3, <1>4 DEF Next

-----------------------------------------------------------------------------
(* Execution.  What is known of one mutating call: its phase, its attempt, what it
   was told, what it returned, and what the server did with each attempt. *)

ServerStates == {"unsent", "received", "accepted", "executed", "refused"}
ServerRecords == [state : ServerStates, conn : Conns \cup {None}, version : Nat]
Tellings == [verdict : Verdicts, version : Nat]
Attempts == 0..MaxRetries

CallsTypeOK ==
  /\ attempt \in [Callers -> 0..Refresh]
  /\ told \in [Callers -> Tellings]
  /\ server \in [Requests -> ServerRecords]
  /\ DOMAIN outcome = Callers
  /\ socket \in Conns \cup {None} /\ conns \in Conns /\ version \in Nat

\* The correlator knows mutations from queries.
PendingKinds == \A r \in DOMAIN pending : pending[r].kind = KindOf(r)

States(c) == [n \in Attempts |-> server[[by |-> c, attempt |-> n]].state]

\* An attempt is made when those before it were refused; what the caller was told and
\* what it returned is what the server did.
CallAccount(ph, at, verdict, out, st) ==
  /\ ph \in {"new", "claimed", "queued", "granted"} => at = 0 /\ st[0] = "unsent"
  /\ ph = "running" => /\ at \in Attempts
                       /\ verdict = "ok" => st[at] = "executed"
                       /\ verdict \in {"limited", "refused"} => st[at] = "refused"
  /\ ph = "sleeping" => at < MaxRetries /\ st[at] = "refused"
  /\ ph = "refreshing" => at = Refresh
  /\ at \in Attempts => \A n \in Attempts : (n < at => st[n] = "refused") /\ (n > at => st[n] = "unsent")
  /\ at = Refresh => \E a \in Attempts :
       st[a] = "executed" /\ \A n \in Attempts \ {a} : st[n] \in {"refused", "unsent"}
  /\ out = "ok" => \E n \in Attempts : st[n] = "executed"
  /\ out \in {"limited", "refused"} => ph = "ended" /\ \A n \in Attempts : st[n] \in {"refused", "unsent"}

CallInv(c) == CallAccount(phase[c], attempt[c], told[c].verdict, outcome[c], States(c))

ExecutionInv ==
  SlotInv /\ CallsTypeOK /\ PendingKinds
  /\ (\A c \in Callers : phase[c] = "sleeping" => attempt[c] < MaxRetries)
  /\ \A c \in Mutators : CallInv(c)

LEMMA ExecutionInvInit == Init => ExecutionInv
<1> SUFFICES ASSUME Init PROVE ExecutionInv
  OBVIOUS
<1>1. SlotInv
  BY SlotInvInit
<1>2. CallsTypeOK
  BY CallsAssumption DEF Init, CallsTypeOK, Untold, Tellings, Verdicts, ServerRecords, ServerStates, Absent, Refresh, Conns
<1>3. PendingKinds
  BY DEF Init, PendingKinds, NothingPending
<1>4. \A c \in Callers : phase[c] = "new" /\ attempt[c] = 0 /\ told[c].verdict = "open" /\ outcome[c] = None
  BY DEF Init, Untold
<1>5. ASSUME NEW c \in Mutators PROVE CallInv(c)
  <2>1. \A n \in Attempts : States(c)[n] = "unsent"
    <3>1. \A n \in Attempts : [by |-> c, attempt |-> n] \in Requests
      BY CallsAssumption DEF Attempts, Callers, Refresh
    <3>2. QED
      BY <3>1 DEF Init, States
  <2>2. 0 \in Attempts /\ Refresh # 0 /\ c \in Callers
    BY CallsAssumption DEF Attempts, Refresh, Callers
  <2>3. QED
    BY <1>4, <2>1, <2>2, NoneAssumption, CallsAssumption DEF CallInv, CallAccount, Attempts
<1>6. QED
  BY <1>1, <1>2, <1>3, <1>4, <1>5 DEF ExecutionInv

LEMMA RequestType ==
  ASSUME CallsTypeOK, NEW c \in Callers
  PROVE  Request(c) \in Requests /\ Request(c).by = c /\ Request(c).attempt = attempt[c]
BY CallsAssumption DEF CallsTypeOK, Request

\* Sending a request: what it does to the requests in flight, to what the callers were
\* told and to the server.
LEMMA SendEffect ==
  ASSUME CallsTypeOK, PendingKinds, NEW r \in Requests, Send(r)
  PROVE  /\ told' \in [Callers -> Tellings] /\ server' \in [Requests -> ServerRecords]
         /\ PendingKinds'
         /\ told'[r.by].verdict \in {"open", "closed"}
         /\ \A c \in Callers \ {r.by} : told'[c] = told[c]
         /\ \A q \in Requests \ {r} : server'[q] = server[q]
         /\ server'[r].state \in {server[r].state, "received"}
         /\ server'[r].version \in {server[r].version, Absent}
<1>0. r.by \in Callers
  BY CallsAssumption
<1>1. CASE socket = None
  <2>1. /\ told' = [told EXCEPT ![r.by] = [verdict |-> "closed", version |-> Absent]]
        /\ pending' = pending /\ server' = server
    BY <1>1 DEF Send
  <2>2. [verdict |-> "closed", version |-> Absent] \in Tellings
    BY DEF Tellings, Verdicts, Absent
  <2>3. QED
    BY <1>0, <2>1, <2>2 DEF CallsTypeOK, PendingKinds, KindOf
<1>2. CASE socket # None
  <2>1. /\ pending' = AwaitRequest(pending, r, KindOf(r))
        /\ server' = [server EXCEPT ![r] = [state |-> "received", conn |-> socket, version |-> Absent]]
        /\ told' = [told EXCEPT ![r.by] = Untold]
    BY <1>2 DEF Send, Forget
  <2>2. [state |-> "received", conn |-> socket, version |-> Absent] \in ServerRecords /\ Untold \in Tellings
    BY DEF CallsTypeOK, ServerRecords, ServerStates, Absent, Tellings, Verdicts, Untold
  <2>3. PendingKinds'
    <3>1. DOMAIN pending' = DOMAIN pending \cup {r}
      BY <2>1 DEF AwaitRequest
    <3>2. pending'[r].kind = KindOf(r) /\ \A q \in DOMAIN pending \ {r} : pending'[q] = pending[q]
      BY <2>1 DEF AwaitRequest
    <3>3. QED
      BY <3>1, <3>2 DEF PendingKinds, KindOf
  <2>4. QED
    BY <1>0, <2>1, <2>2, <2>3 DEF CallsTypeOK, Untold
<1>3. QED
  BY <1>1, <1>2

\* How a step on the server shows in the account of a call.
LEMMA StatesKept ==
  ASSUME NEW c \in Mutators, \A n \in Attempts : server'[[by |-> c, attempt |-> n]].state = server[[by |-> c, attempt |-> n]].state
  PROVE  States(c)' = States(c)
BY DEF States

LEMMA OneStateMoves ==
  ASSUME NEW c \in Mutators, NEW n \in Attempts,
         \A q \in Requests \ {[by |-> c, attempt |-> n]} : server'[q] = server[q]
  PROVE  States(c)' = [States(c) EXCEPT ![n] = server'[[by |-> c, attempt |-> n]].state]
<1>1. \A m \in Attempts \ {n} : [by |-> c, attempt |-> m] \in Requests \ {[by |-> c, attempt |-> n]}
  BY CallsAssumption DEF Attempts, Callers, Refresh
<1>2. QED
  BY <1>1 DEF States

-----------------------------------------------------------------------------
(* The account of one call under what the server does. *)

LEMMA ServerExecutes ==
  ASSUME NEW ph, NEW at \in 0..Refresh, NEW v, NEW w, NEW out, NEW st \in [Attempts -> ServerStates],
         NEW n \in Attempts, CallAccount(ph, at, v, out, st), st[n] \in {"received", "accepted"},
         w \in {v, "ok", "canceled"}
  PROVE  CallAccount(ph, at, w, out, [st EXCEPT ![n] = "executed"])
<1>1. at = n
  BY CallsAssumption DEF CallAccount, Attempts, Refresh
<1>2. ph \notin {"new", "claimed", "queued", "granted", "sleeping", "refreshing"}
  BY <1>1, CallsAssumption DEF CallAccount, Attempts, Refresh
<1>3. ~(out \in {"limited", "refused"})
  BY DEF CallAccount
<1>4. ph = "running" => v \notin {"ok", "limited", "refused"}
  BY <1>1 DEF CallAccount
<1>5. QED
  BY <1>1, <1>2, <1>3, <1>4, CallsAssumption DEF CallAccount, Attempts, Refresh

LEMMA ServerRefuses ==
  ASSUME NEW ph, NEW at \in 0..Refresh, NEW v, NEW w, NEW out, NEW st \in [Attempts -> ServerStates],
         NEW n \in Attempts, CallAccount(ph, at, v, out, st), st[n] \in {"received", "accepted"},
         w \in {v, "limited", "refused"}
  PROVE  CallAccount(ph, at, w, out, [st EXCEPT ![n] = "refused"])
<1>1. at = n
  BY CallsAssumption DEF CallAccount, Attempts, Refresh
<1>2. ph \notin {"new", "claimed", "queued", "granted", "sleeping", "refreshing"}
  BY <1>1, CallsAssumption DEF CallAccount, Attempts, Refresh
<1>3. ~(out \in {"limited", "refused"})
  BY DEF CallAccount
<1>4. ph = "running" => v \notin {"ok", "limited", "refused"}
  BY <1>1 DEF CallAccount
<1>5. QED
  BY <1>1, <1>2, <1>3, <1>4, CallsAssumption DEF CallAccount, Attempts, Refresh

LEMMA ServerAccepts ==
  ASSUME NEW ph, NEW at \in 0..Refresh, NEW v, NEW out, NEW st \in [Attempts -> ServerStates],
         NEW n \in Attempts, CallAccount(ph, at, v, out, st), st[n] = "received"
  PROVE  CallAccount(ph, at, v, out, [st EXCEPT ![n] = "accepted"])
<1>1. at = n
  BY CallsAssumption DEF CallAccount, Attempts, Refresh
<1>2. ph \notin {"new", "claimed", "queued", "granted", "sleeping", "refreshing"}
  BY <1>1, CallsAssumption DEF CallAccount, Attempts, Refresh
<1>3. ~(out \in {"limited", "refused"})
  BY DEF CallAccount
<1>4. ph = "running" => v \notin {"ok", "limited", "refused"}
  BY <1>1 DEF CallAccount
<1>5. QED
  BY <1>1, <1>2, <1>3, <1>4, CallsAssumption DEF CallAccount, Attempts, Refresh

\* What a frame the server sends does to the requests in flight and to the callers.
LEMMA ReplyEffect ==
  ASSUME CallsTypeOK, PendingKinds, NEW r \in Requests, NEW kind \in FrameKinds, NEW limited \in BOOLEAN,
         NEW v \in Nat, Reply(r, Frame(kind, r, limited, v))
  PROVE  /\ PendingKinds' /\ told' \in [Callers -> Tellings]
         /\ \A c \in Callers :
              \/ told'[c] = told[c]
              \/ /\ Awaits(c, r) /\ told'[c].verdict = Verdict(pending, Frame(kind, r, limited, v))
                 /\ Verdict(pending, Frame(kind, r, limited, v)) # None
                 /\ ~(kind = "ack" /\ KindOf(r) = "mutation")
         /\ \A c \in Callers : told'[c] = told[c] \/ told'[c].version = v
<1> DEFINE f == Frame(kind, r, limited, v)
<1>1. CASE server[r].conn = None
  BY <1>1 DEF Reply, CallsTypeOK, PendingKinds, KindOf
<1>2. CASE server[r].conn # None
  <2>0. f.request = r /\ f.kind = kind /\ f.version = v
    BY DEF Frame
  <2>1. pending' = AfterFrame(pending, f)
    BY <1>2 DEF Reply, Route
  <2>2. PendingKinds'
    <3>1. \A q \in DOMAIN pending' : q \in DOMAIN pending /\ pending'[q].kind = pending[q].kind
      <4>1. CASE pending' = pending
        BY <4>1
      <4>2. CASE pending' = [x \in DOMAIN pending \ {r} |-> pending[x]]
        BY <4>2
      <4>3. CASE pending' = [pending EXCEPT ![r].acked = TRUE] /\ r \in DOMAIN pending
        <5>1. DOMAIN pending' = DOMAIN pending
          BY <4>3
        <5>2. \A q \in DOMAIN pending \ {r} : pending'[q] = pending[q]
          BY <4>3
        <5>3. pending'[r] = [pending[r] EXCEPT !.acked = TRUE]
          BY <4>3
        <5>4. pending'[r].kind = pending[r].kind
          BY <5>3
        <5>5. QED
          BY <5>1, <5>2, <5>4
      <4>4. QED
        BY <2>0, <2>1, <4>1, <4>2, <4>3 DEF AfterFrame, CancelRequest, Handles
    <3>2. QED
      BY <3>1 DEF PendingKinds, KindOf
  <2>3. CASE Verdict(pending, f) = None
    BY <1>2, <2>2, <2>3 DEF Reply, Route, CallsTypeOK
  <2>4. CASE Verdict(pending, f) # None
    <3>1. told' = [c \in Callers |-> IF Awaits(c, r) THEN [verdict |-> Verdict(pending, f), version |-> v] ELSE told[c]]
      BY <1>2, <2>0, <2>4 DEF Reply, Route, Tell
    <3>2. Handles(pending, f) /\ ~Retains(pending, f)
      BY <2>4 DEF Verdict
    <3>3. Verdict(pending, f) \in Verdicts
      BY <3>2 DEF Verdict, Verdicts
    <3>4. ~(kind = "ack" /\ KindOf(r) = "mutation")
      BY <2>0, <3>2 DEF Handles, Retains, PendingKinds
    <3>5. [verdict |-> Verdict(pending, f), version |-> v] \in Tellings
      BY <3>3 DEF Tellings
    <3>6. QED
      BY <2>2, <2>4, <3>1, <3>4, <3>5 DEF CallsTypeOK
  <2>5. QED
    BY <2>3, <2>4
<1>3. QED
  BY <1>1, <1>2

LEMMA KindOfAttempt ==
  ASSUME CallsTypeOK, NEW c \in Mutators, NEW n \in Attempts
  PROVE  KindOf([by |-> c, attempt |-> n]) = "mutation" /\ [by |-> c, attempt |-> n] \in Requests
BY CallsAssumption DEF KindOf, Attempts, Refresh, Callers

LEMMA StatesType ==
  ASSUME CallsTypeOK, NEW c \in Mutators
  PROVE  States(c) \in [Attempts -> ServerStates]
BY KindOfAttempt DEF CallsTypeOK, States, ServerRecords

\* A step of the server on request r: the caller of r may have been told something,
\* everybody else's account stays.
LEMMA UnservedKeep ==
  ASSUME CallsTypeOK, PendingKinds, NEW r \in Requests, NEW c \in Mutators, CallInv(c),
         UNCHANGED <<phase, attempt, outcome>>,
         \A q \in Requests \ {r} : server'[q] = server[q],
         \/ told'[c] = told[c] \/ Awaits(c, r),
         r.by # c \/ r.attempt \notin Attempts
  PROVE  CallInv(c)'
<1>1. States(c)' = States(c)
  BY KindOfAttempt, StatesKept
<1>2. CASE told'[c] = told[c]
  BY <1>1, <1>2 DEF CallInv
<1>3. CASE Awaits(c, r)
  <2>1. c \in Callers
    BY DEF Callers
  <2>2. phase[c] # "running"
    BY <1>3, <2>1, RequestType DEF Awaits, CallInv, CallAccount
  <2>3. QED
    BY <1>1, <2>2 DEF CallInv, CallAccount
<1>4. QED
  BY <1>2, <1>3

\* The caller of r, when r is one of the attempts of a mutation.
LEMMA ServedKeeps ==
  ASSUME NEW c \in Mutators, NEW n \in Attempts, UNCHANGED <<phase, attempt, outcome>>,
         \A q \in Requests \ {[by |-> c, attempt |-> n]} : server'[q] = server[q],
         CallAccount(phase[c], attempt[c], told'[c].verdict, outcome[c],
                     [States(c) EXCEPT ![n] = server'[[by |-> c, attempt |-> n]].state])
  PROVE  CallInv(c)'
<1>1. States(c)' = [States(c) EXCEPT ![n] = server'[[by |-> c, attempt |-> n]].state]
  BY OneStateMoves
<1>2. QED
  BY <1>1 DEF CallInv

LEMMA ServerStepKeeps ==
  ASSUME ExecutionInv, ServerStep
  PROVE  ExecutionInv'
<1>0. CallsTypeOK /\ PendingKinds /\ \A c \in Mutators : CallInv(c)
  BY DEF ExecutionInv
<1>1. UNCHANGED <<socket, conns, active, waiters, phase, attempt, outcome>>
  BY DEF ServerStep
<1>2. SlotInv'
  BY <1>1 DEF ExecutionInv, SlotInv, SlotTypeOK, OneMutationAtATime, HasSlot, HoldsSlot
<1>3. (\A c \in Callers : phase[c] = "sleeping" => attempt[c] < MaxRetries)'
  BY <1>1 DEF ExecutionInv
<1>4. SUFFICES CallsTypeOK' /\ PendingKinds' /\ \A c \in Mutators : CallInv(c)'
  BY <1>2, <1>3 DEF ExecutionInv
<1>5. PICK r \in Requests : AnswerQuery(r) \/ Refuse(r) \/ Acknowledge(r) \/ Execute(r)
  BY DEF ServerStep
<1>6. r = [by |-> r.by, attempt |-> r.attempt] /\ r.attempt \in 0..Refresh
  BY CallsAssumption
<1>7. Absent \in Nat /\ version \in Nat /\ version + 1 \in Nat
  BY <1>0 DEF Absent, CallsTypeOK
\* From the effect of the step on the server and on the callers to the conclusion.
<1>8. ASSUME NEW new \in ServerRecords, server' = [server EXCEPT ![r] = new], version' \in Nat,
             told' \in [Callers -> Tellings], PendingKinds'
      PROVE  CallsTypeOK' /\ (\A q \in Requests \ {r} : server'[q] = server[q]) /\ server'[r] = new
  BY <1>0, <1>1, <1>8 DEF CallsTypeOK
<1>9. CASE AnswerQuery(r)
  <2>1. Reply(r, Frame("result", r, FALSE, version)) /\ version' = version
    BY <1>9 DEF AnswerQuery
  <2>2. /\ PendingKinds' /\ told' \in [Callers -> Tellings]
        /\ \A c \in Callers : told'[c] = told[c] \/ Awaits(c, r)
    BY <1>0, <1>7, <2>1, ReplyEffect DEF FrameKinds
  <2> DEFINE new == [server[r] EXCEPT !.state = "executed"]
  <2>3. new \in ServerRecords /\ server' = [server EXCEPT ![r] = new]
    BY <1>0, <1>9 DEF AnswerQuery, CallsTypeOK, ServerRecords, ServerStates
  <2>4. CallsTypeOK' /\ \A q \in Requests \ {r} : server'[q] = server[q]
    BY <1>7, <1>8, <2>1, <2>2, <2>3
  <2>5. \A c \in Mutators : r.by # c \/ r.attempt \notin Attempts
    BY <1>0, <1>6, <1>9, KindOfAttempt DEF AnswerQuery
  <2>6. QED
    BY <1>0, <1>1, <2>2, <2>4, <2>5, UnservedKeep DEF Callers
\* The caller of an attempt of a mutation, and what the lemmas above ask of it.
<1>caller. ASSUME KindOf(r) = "mutation"
      PROVE  /\ r.by \in Mutators /\ r.by \in Callers /\ r.attempt \in Attempts
             /\ CallAccount(phase[r.by], attempt[r.by], told[r.by].verdict, outcome[r.by], States(r.by))
             /\ attempt[r.by] \in 0..Refresh /\ States(r.by) \in [Attempts -> ServerStates]
             /\ States(r.by)[r.attempt] = server[r].state
  <2>1. r.by \in Mutators /\ r.attempt \in Attempts /\ r.by \in Callers
    BY <1>6, <1>caller, CallsAssumption DEF KindOf, Attempts, Refresh, Callers
  <2>2. States(r.by)[r.attempt] = server[r].state
    BY <1>6, <2>1 DEF States
  <2>3. QED
    BY <1>0, <2>1, <2>2, StatesType DEF CallInv, CallsTypeOK
<1>10. CASE Execute(r)
  <2>1. /\ server[r].state \in {"received", "accepted"} /\ version' = version + 1
        /\ \E kind \in {"result", "action_result"}, v \in {Absent, version + 1} : Reply(r, Frame(kind, r, FALSE, v))
    BY <1>10 DEF Execute
  <2>2. PICK kind \in {"result", "action_result"}, v \in {Absent, version + 1} : Reply(r, Frame(kind, r, FALSE, v))
    BY <2>1
  <2> DEFINE f == Frame(kind, r, FALSE, v)
  <2>3. /\ PendingKinds' /\ told' \in [Callers -> Tellings]
        /\ \A c \in Callers : \/ told'[c] = told[c]
                              \/ Awaits(c, r) /\ told'[c].verdict = Verdict(pending, f) /\ Verdict(pending, f) # None
    <3>1. kind \in FrameKinds /\ v \in Nat /\ FALSE \in BOOLEAN
      BY <1>7 DEF FrameKinds
    <3>2. QED
      <4>1. /\ PendingKinds' /\ told' \in [Callers -> Tellings]
            /\ \A c \in Callers : \/ told'[c] = told[c]
                                  \/ /\ Awaits(c, r) /\ told'[c].verdict = Verdict(pending, Frame(kind, r, FALSE, v))
                                     /\ Verdict(pending, Frame(kind, r, FALSE, v)) # None
                                     /\ ~(kind = "ack" /\ KindOf(r) = "mutation")
        BY <1>0, <2>2, <3>1, ReplyEffect, Zenon
      <4>2. QED
        BY <4>1
  <2>4. Verdict(pending, f) \in {None, "ok", "canceled"}
    BY DEF Verdict, Frame
  <2> HIDE DEF f
  <2> DEFINE new == [server[r] EXCEPT !.state = "executed", !.version = version + 1]
  <2>5. new \in ServerRecords /\ new.state = "executed"
    BY <1>0, <1>7 DEF CallsTypeOK, ServerRecords, ServerStates
  <2>6. server' = [server EXCEPT ![r] = new]
    BY <1>0, <1>10 DEF Execute, CallsTypeOK, ServerRecords
  <2>7. CallsTypeOK' /\ (\A q \in Requests \ {r} : server'[q] = server[q]) /\ server'[r].state = "executed"
    BY <1>7, <1>8, <2>1, <2>3, <2>5, <2>6
  <2>8. KindOf(r) = "mutation"
    BY <1>10 DEF Execute
  <2>9. CallInv(r.by)'
    <3>1. told'[r.by].verdict \in {told[r.by].verdict, "ok", "canceled"}
      BY <1>caller, <2>3, <2>4, <2>8
    <3>2. CallAccount(phase[r.by], attempt[r.by], told'[r.by].verdict, outcome[r.by],
                      [States(r.by) EXCEPT ![r.attempt] = "executed"])
      BY <1>caller, <2>1, <2>8, <3>1, ServerExecutes
    <3>3. QED
      BY <1>1, <1>6, <1>caller, <2>7, <2>8, <3>2, ServedKeeps
  <2>10. QED
    BY <1>0, <1>1, <2>3, <2>7, <2>9, UnservedKeep DEF Callers
<1>11. CASE Refuse(r)
  <2>1. server[r].state \in {"received", "accepted"} /\ version' = version
    BY <1>11 DEF Refuse
  <2>2. PICK kind \in {"error", "action_error"}, limited \in BOOLEAN : Reply(r, Frame(kind, r, limited, Absent))
    BY <1>11 DEF Refuse
  <2> DEFINE f == Frame(kind, r, limited, Absent)
  <2>3. /\ PendingKinds' /\ told' \in [Callers -> Tellings]
        /\ \A c \in Callers : \/ told'[c] = told[c]
                              \/ Awaits(c, r) /\ told'[c].verdict = Verdict(pending, f) /\ Verdict(pending, f) # None
    <3>1. kind \in FrameKinds
      BY DEF FrameKinds
    <3>2. QED
      BY <1>0, <1>7, <2>2, <3>1, ReplyEffect
  <2>4. Verdict(pending, f) \in {None, "limited", "refused"}
    BY DEF Verdict, Frame
  <2> HIDE DEF f
  <2> DEFINE new == [server[r] EXCEPT !.state = "refused"]
  <2>5. new \in ServerRecords /\ new.state = "refused"
    BY <1>0 DEF CallsTypeOK, ServerRecords, ServerStates
  <2>6. server' = [server EXCEPT ![r] = new]
    BY <1>0, <1>11 DEF Refuse, CallsTypeOK, ServerRecords
  <2>7. CallsTypeOK' /\ (\A q \in Requests \ {r} : server'[q] = server[q]) /\ server'[r].state = "refused"
    BY <1>7, <1>8, <2>1, <2>3, <2>5, <2>6
  <2>8. CASE KindOf(r) = "mutation"
    <3>1. told'[r.by].verdict \in {told[r.by].verdict, "limited", "refused"}
      BY <1>caller, <2>3, <2>4, <2>8
    <3>2. CallAccount(phase[r.by], attempt[r.by], told'[r.by].verdict, outcome[r.by],
                      [States(r.by) EXCEPT ![r.attempt] = "refused"])
      BY <1>caller, <2>1, <2>8, <3>1, ServerRefuses
    <3>3. CallInv(r.by)'
      BY <1>1, <1>6, <1>caller, <2>7, <2>8, <3>2, ServedKeeps
    <3>4. QED
      BY <1>0, <1>1, <2>3, <2>7, <3>3, UnservedKeep DEF Callers
  <2>9. CASE KindOf(r) # "mutation"
    <3>1. \A c \in Mutators : r.by # c \/ r.attempt \notin Attempts
      BY <1>0, <1>6, <2>9, KindOfAttempt
    <3>2. QED
      BY <1>0, <1>1, <2>3, <2>7, <3>1, UnservedKeep DEF Callers
  <2>10. QED
    BY <2>8, <2>9
<1>12. CASE Acknowledge(r)
  <2>1. server[r].state = "received" /\ KindOf(r) = "mutation" /\ version' = version
    BY <1>12 DEF Acknowledge
  <2>2. PendingKinds' /\ told' \in [Callers -> Tellings] /\ \A c \in Callers : told'[c] = told[c]
    <3>1. Reply(r, Frame("ack", r, FALSE, Absent)) /\ "ack" \in FrameKinds /\ FALSE \in BOOLEAN
      BY <1>12 DEF Acknowledge, FrameKinds
    <3>2. QED
      BY <1>0, <1>7, <2>1, <3>1, ReplyEffect
  <2> DEFINE new == [server[r] EXCEPT !.state = "accepted"]
  <2>3. new \in ServerRecords /\ new.state = "accepted"
    BY <1>0 DEF CallsTypeOK, ServerRecords, ServerStates
  <2>4. server' = [server EXCEPT ![r] = new]
    BY <1>0, <1>12 DEF Acknowledge, CallsTypeOK, ServerRecords
  <2>5. CallsTypeOK' /\ (\A q \in Requests \ {r} : server'[q] = server[q]) /\ server'[r].state = "accepted"
    BY <1>7, <1>8, <2>1, <2>2, <2>3, <2>4
  <2>6. CallInv(r.by)'
    <3>1. CallAccount(phase[r.by], attempt[r.by], told'[r.by].verdict, outcome[r.by],
                      [States(r.by) EXCEPT ![r.attempt] = "accepted"])
      BY <1>caller, <2>1, <2>2, ServerAccepts
    <3>2. QED
      BY <1>1, <1>6, <1>caller, <2>1, <2>5, <3>1, ServedKeeps
  <2>7. QED
    BY <1>0, <1>1, <2>2, <2>5, <2>6, UnservedKeep DEF Callers
<1>13. QED
  BY <1>5, <1>9, <1>10, <1>11, <1>12

-----------------------------------------------------------------------------
(* The account of one call under the steps of its own future. *)

LEMMA FirstAttemptAccount ==
  ASSUME NEW ph \in {"claimed", "granted"}, NEW at, NEW v, NEW w, w \notin {"ok", "limited", "refused"}, NEW out,
         NEW st \in [Attempts -> ServerStates], CallAccount(ph, at, v, out, st),
         NEW after, after = [st EXCEPT ![0] = after[0]]
  PROVE  CallAccount("running", at, w, out, after)
<1>1. at = 0 /\ st[0] = "unsent" /\ 0 \in Attempts /\ Refresh # 0
  BY CallsAssumption DEF CallAccount, Attempts, Refresh
<1>2. ~(out \in {"limited", "refused"})
  BY DEF CallAccount
<1>3. QED
  BY <1>1, <1>2, CallsAssumption DEF CallAccount, Attempts

LEMMA RetryAccount ==
  ASSUME NEW at \in 0..Refresh, NEW v, NEW w, w \notin {"ok", "limited", "refused"}, NEW out,
         NEW st \in [Attempts -> ServerStates], CallAccount("sleeping", at, v, out, st),
         NEW after, after = [st EXCEPT ![at + 1] = after[at + 1]]
  PROVE  CallAccount("running", at + 1, w, out, after)
<1>1. at \in Attempts /\ at + 1 \in Attempts /\ at + 1 # Refresh /\ st[at] = "refused" /\ st[at + 1] = "unsent"
  BY CallsAssumption DEF CallAccount, Attempts, Refresh
<1>2. ~(out \in {"limited", "refused"})
  BY DEF CallAccount
<1>3. \A n \in Attempts : (n < at + 1 => st[n] = "refused") /\ (n > at + 1 => st[n] = "unsent")
  BY <1>1, CallsAssumption DEF CallAccount, Attempts
<1>4. out = "ok" => \E n \in Attempts : st[n] = "executed" /\ n # at + 1
  BY <1>1 DEF CallAccount
<1>5. QED
  BY <1>1, <1>2, <1>3, <1>4, CallsAssumption DEF CallAccount, Attempts, Refresh

LEMMA RefreshAccount ==
  ASSUME NEW at \in 0..Refresh, NEW w, NEW out, NEW st \in [Attempts -> ServerStates],
         CallAccount("running", at, "ok", out, st)
  PROVE  CallAccount("refreshing", Refresh, w, out, st)
<1>1. at \in Attempts /\ st[at] = "executed" /\ Refresh \notin Attempts
  BY CallsAssumption DEF CallAccount, Attempts, Refresh
<1>2. \A n \in Attempts \ {at} : st[n] \in {"refused", "unsent"}
  BY <1>1, CallsAssumption DEF CallAccount, Attempts
<1>3. QED
  BY <1>1, <1>2 DEF CallAccount

LEMMA SleepAccount ==
  ASSUME NEW at \in 0..Refresh, NEW out, NEW st, at < MaxRetries,
         CallAccount("running", at, "limited", out, st)
  PROVE  CallAccount("sleeping", at, "limited", out, st)
BY DEF CallAccount

\* The future returns what it was told, or that nobody answered in time.
LEMMA ReturnAccount ==
  ASSUME NEW at \in 0..Refresh, NEW v, NEW w, NEW out, NEW result \in {v, "timeout"}, NEW st,
         CallAccount("running", at, v, out, st)
  PROVE  CallAccount("ended", at, w, result, st)
<1>1. at \in Attempts /\ at # Refresh
  BY CallsAssumption DEF CallAccount, Attempts, Refresh
<1>2. result \in {"limited", "refused"} => \A n \in Attempts : st[n] \in {"refused", "unsent"}
  BY <1>1, CallsAssumption DEF CallAccount, Attempts
<1>3. QED
  BY <1>1, <1>2 DEF CallAccount

LEMMA RefreshedAccount ==
  ASSUME NEW at, NEW v, NEW w, NEW out, NEW st, CallAccount("refreshing", at, v, out, st)
  PROVE  CallAccount("ended", at, w, "ok", st)
BY CallsAssumption DEF CallAccount, Attempts, Refresh

LEMMA DropAccount ==
  ASSUME NEW ph \in {"queued", "granted", "running", "sleeping", "refreshing"}, NEW p \in {"dropped", "lost"},
         NEW at, NEW v, NEW w, NEW out, NEW st, CallAccount(ph, at, v, out, st)
  PROVE  CallAccount(p, at, w, out, st)
BY DEF CallAccount

LEMMA TakeAccount ==
  ASSUME NEW p \in {"queued", "claimed"}, NEW at, NEW v, NEW out, NEW st, CallAccount("new", at, v, out, st)
  PROVE  CallAccount(p, at, v, out, st)
BY DEF CallAccount

\* The futures that are not polled: one of them may be handed the slot.
LEMMA OthersKeep ==
  ASSUME NEW d \in Mutators, CallInv(d), phase'[d] = phase[d] \/ (phase[d] = "queued" /\ phase'[d] = "granted"),
         attempt'[d] = attempt[d], told'[d] = told[d], outcome'[d] = outcome[d], States(d)' = States(d)
  PROVE  CallInv(d)'
BY DEF CallInv, CallAccount

\* The slot goes to somebody who waits for it, and nobody else is disturbed.
LEMMA FinishEffect ==
  ASSUME SlotInv, NEW c \in Callers, NEW p \in Phases, FinishMutation(c, p)
  PROVE  /\ phase'[c] = p
         /\ \A d \in Callers \ {c} : phase'[d] = phase[d] \/ (phase[d] = "queued" /\ phase'[d] = "granted")
<1> DEFINE live == {i \in DOMAIN waiters : Alive(waiters[i])}
           next == CHOOSE i \in live : \A j \in live : i <= j
<1>1. CASE Enter(c, p)
  BY <1>1 DEF Enter, SlotInv, SlotTypeOK
<1>2. CASE HoldsSlot(c) /\ live # {}
  <2>1. phase' = [phase EXCEPT ![c] = p, ![waiters[next]] = "granted"]
    BY <1>2, Zenon DEF FinishMutation
  <2>2. next \in live
    <3>1. Len(waiters) \in Nat /\ live \in SUBSET (1..Len(waiters))
      BY DEF SlotInv, SlotTypeOK
    <3>2. \E i \in live : \A j \in live : i <= j
      BY <1>2, <3>1, LeastIndex
    <3>3. QED
      BY <3>2
  <2>3. waiters[next] \in Mutators /\ phase[waiters[next]] = "queued" /\ phase[c] # "queued"
    BY <1>2, <2>2 DEF SlotInv, SlotTypeOK, Alive, HoldsSlot
  <2> HIDE DEF next, live
  <2>4. QED
    BY <2>1, <2>3 DEF SlotInv, SlotTypeOK, Callers
<1>3. QED
  BY <1>1, <1>2 DEF FinishMutation

\* A step of one future keeps the accounts if it keeps its own.
LEMMA CallerStep ==
  ASSUME ExecutionInv, NEW c \in Callers, SlotInv', CallsTypeOK', PendingKinds',
         phase'[c] = "sleeping" => attempt'[c] < MaxRetries,
         c \in Mutators => CallInv(c)',
         \A d \in Callers \ {c} :
           /\ phase'[d] = phase[d] \/ (phase[d] = "queued" /\ phase'[d] = "granted")
           /\ attempt'[d] = attempt[d] /\ told'[d] = told[d] /\ outcome'[d] = outcome[d],
         \A d \in Mutators \ {c} : States(d)' = States(d)
  PROVE  ExecutionInv'
<1>1. \A d \in Callers : phase'[d] = "sleeping" => attempt'[d] < MaxRetries
  BY DEF ExecutionInv
<1>2. \A d \in Mutators \ {c} : CallInv(d)'
  BY OthersKeep DEF ExecutionInv, Callers
<1>3. \A d \in Mutators : CallInv(d)'
  BY <1>2
<1>4. QED
  BY <1>1, <1>3 DEF ExecutionInv

LEMMA OtherStates ==
  ASSUME NEW c \in Callers, NEW r, r.by = c, \A q \in Requests \ {r} : server'[q] = server[q]
  PROVE  \A d \in Mutators \ {c} : States(d)' = States(d)
<1> SUFFICES ASSUME NEW d \in Mutators \ {c} PROVE States(d)' = States(d)
  OBVIOUS
<1>1. \A n \in Attempts : [by |-> d, attempt |-> n] \in Requests \ {r}
  BY CallsAssumption DEF Attempts, Callers, Refresh
<1>2. QED
  BY <1>1, StatesKept

\* The steps that send: what is left to show is the account of the sender.
LEMMA SenderStep ==
  ASSUME ExecutionInv, SlotInv', NEW c \in Callers, NEW r \in Requests, r.by = c, Send(r), NEW p \in {"running", "refreshing"},
         Enter(c, p), NEW n \in 0..Refresh, attempt' = [attempt EXCEPT ![c] = n],
         UNCHANGED <<socket, conns, outcome, version>>,
         c \in Mutators => CallInv(c)'
  PROVE  ExecutionInv'
<1>0. CallsTypeOK /\ PendingKinds /\ phase \in [Callers -> Phases]
  BY DEF ExecutionInv, SlotInv, SlotTypeOK
<1>1. /\ told' \in [Callers -> Tellings] /\ server' \in [Requests -> ServerRecords] /\ PendingKinds'
      /\ \A d \in Callers \ {c} : told'[d] = told[d]
      /\ \A q \in Requests \ {r} : server'[q] = server[q]
  BY <1>0, SendEffect
<1>2. CallsTypeOK'
  BY <1>0, <1>1 DEF CallsTypeOK
<1>3. phase'[c] = p /\ \A d \in Callers \ {c} : phase'[d] = phase[d] /\ attempt'[d] = attempt[d] /\ outcome'[d] = outcome[d]
  BY <1>0 DEF Enter, CallsTypeOK
<1>4. \A d \in Mutators \ {c} : States(d)' = States(d)
  BY <1>1, OtherStates
<1>5. QED
  BY <1>1, <1>2, <1>3, <1>4, CallerStep

LEMMA SendingSteps ==
  ASSUME ExecutionInv, SlotInv', NEW c \in Callers, Query(c) \/ FirstAttempt(c) \/ RetryAttempt(c) \/ BeginsRefresh(c)
  PROVE  ExecutionInv'
<1>0. /\ CallsTypeOK /\ PendingKinds /\ phase \in [Callers -> Phases] /\ attempt \in [Callers -> 0..Refresh]
      /\ c \in Mutators => CallInv(c) /\ attempt[c] \in 0..Refresh /\ States(c) \in [Attempts -> ServerStates]
  BY StatesType DEF ExecutionInv, SlotInv, SlotTypeOK, CallsTypeOK
<1>1. attempt = [attempt EXCEPT ![c] = attempt[c]] /\ attempt[c] \in 0..Refresh
  BY <1>0
<1>2. CASE Query(c)
  <2>1. Send(Request(c)) /\ Enter(c, "running") /\ c \notin Mutators /\ UNCHANGED <<socket, conns, attempt, outcome, version>>
    BY <1>2, CallsAssumption DEF Query
  <2>2. QED
    BY <1>0, <1>1, <2>1, RequestType, SenderStep
<1>3. CASE FirstAttempt(c)
  <2>1. /\ phase[c] \in {"claimed", "granted"} /\ Send(Request(c)) /\ Enter(c, "running")
        /\ UNCHANGED <<socket, conns, attempt, outcome, version>>
    BY <1>3 DEF FirstAttempt
  <2>2. /\ told'[c].verdict \in {"open", "closed"}
        /\ \A q \in Requests \ {Request(c)} : server'[q] = server[q]
        /\ server'[Request(c)].state \in {server[Request(c)].state, "received"}
    BY <1>0, <2>1, RequestType, SendEffect
  <2>3. ASSUME c \in Mutators PROVE CallInv(c)'
    <3>1. attempt[c] = 0 /\ 0 \in Attempts
      BY <1>0, <2>1, <2>3, CallsAssumption DEF CallInv, CallAccount, Attempts
    <3>2. Request(c) = [by |-> c, attempt |-> 0] /\ States(c)[0] = server[Request(c)].state
      BY <3>1 DEF Request, States
    <3>3. States(c)' = [States(c) EXCEPT ![0] = server'[Request(c)].state]
      BY <2>2, <2>3, <3>1, <3>2, OneStateMoves
    <3>4. CallAccount("running", attempt[c], told'[c].verdict, outcome[c], States(c)')
      <4> DEFINE new == server'[Request(c)].state
                 after == States(c)'
      <4>1. after = [States(c) EXCEPT ![0] = new] /\ States(c) \in [Attempts -> ServerStates]
        BY <1>0, <2>3, <3>3
      <4> HIDE DEF new
      <4>2. after = [States(c) EXCEPT ![0] = after[0]]
        BY <3>1, <4>1
      <4> HIDE DEF after
      <4>3. CallAccount(phase[c], attempt[c], told[c].verdict, outcome[c], States(c))
        BY <1>0, <2>3 DEF CallInv
      <4>4. CallAccount("running", attempt[c], told'[c].verdict, outcome[c], after)
        BY <2>1, <2>2, <4>1, <4>2, <4>3, FirstAttemptAccount
      <4>5. QED
        BY <4>4 DEF after
    <3>5. phase'[c] = "running"
      BY <1>0, <2>1 DEF Enter
    <3>6. QED
      BY <2>1, <3>4, <3>5 DEF CallInv
  <2>4. QED
    BY <1>0, <1>1, <2>1, <2>3, RequestType, SenderStep
<1>4. CASE RetryAttempt(c)
  <2> DEFINE r == [Request(c) EXCEPT !.attempt = @ + 1]
  <2>1. /\ phase[c] = "sleeping" /\ Send(r) /\ Enter(c, "running")
        /\ attempt' = [attempt EXCEPT ![c] = attempt[c] + 1]
        /\ UNCHANGED <<socket, conns, outcome, version>>
    BY <1>0, <1>4 DEF RetryAttempt
  <2>2. attempt[c] < MaxRetries /\ attempt[c] + 1 \in 0..Refresh
    BY <1>0, <2>1, CallsAssumption DEF ExecutionInv, Refresh
  <2>3. r = [by |-> c, attempt |-> attempt[c] + 1] /\ r \in Requests
    BY <2>2, CallsAssumption DEF Request
  <2> HIDE DEF r
  <2>4. /\ told'[c].verdict \in {"open", "closed"}
        /\ \A q \in Requests \ {r} : server'[q] = server[q]
        /\ server'[r].state \in {server[r].state, "received"}
    BY <1>0, <2>1, <2>3, SendEffect
  <2>5. ASSUME c \in Mutators PROVE CallInv(c)'
    <3>1. attempt[c] + 1 \in Attempts
      BY <1>0, <2>2, CallsAssumption DEF Attempts
    <3>2. States(c)[attempt[c] + 1] = server[r].state
      BY <2>3, <3>1 DEF States
    <3>3. States(c)' = [States(c) EXCEPT ![attempt[c] + 1] = server'[r].state]
      BY <2>3, <2>4, <2>5, <3>1, OneStateMoves
    <3>4. CallAccount("sleeping", attempt[c], told[c].verdict, outcome[c], States(c))
      BY <1>0, <2>1, <2>5 DEF CallInv
    <3>5. CallAccount("running", attempt[c] + 1, told'[c].verdict, outcome[c], States(c)')
      <4> DEFINE new == server'[r].state
                 after == States(c)'
      <4>1. after = [States(c) EXCEPT ![attempt[c] + 1] = new] /\ States(c) \in [Attempts -> ServerStates]
        BY <1>0, <2>5, <3>3
      <4> HIDE DEF new
      <4>2. after = [States(c) EXCEPT ![attempt[c] + 1] = after[attempt[c] + 1]]
        BY <3>1, <4>1
      <4> HIDE DEF after
      <4>3. CallAccount("running", attempt[c] + 1, told'[c].verdict, outcome[c], after)
        BY <1>0, <2>4, <3>4, <4>1, <4>2, RetryAccount
      <4>4. QED
        BY <4>3 DEF after
    <3>6. phase'[c] = "running" /\ attempt'[c] = attempt[c] + 1
      BY <1>0, <2>1 DEF Enter
    <3>7. QED
      BY <2>1, <3>5, <3>6 DEF CallInv
  <2>6. QED
    BY <1>0, <2>1, <2>2, <2>3, <2>5, SenderStep
<1>5. CASE BeginsRefresh(c)
  <2> DEFINE r == [by |-> c, attempt |-> Refresh]
  <2>1. /\ phase[c] = "running" /\ c \in Mutators /\ told[c].verdict = "ok" /\ Send(r) /\ Enter(c, "refreshing")
        /\ attempt' = [attempt EXCEPT ![c] = Refresh]
        /\ UNCHANGED <<socket, conns, outcome, version>>
    BY <1>5 DEF BeginsRefresh, ToldNow
  <2>2. Refresh \in 0..Refresh /\ r \in Requests /\ r.by = c
    BY CallsAssumption DEF Refresh
  <2> HIDE DEF r
  <2>3. \A q \in Requests \ {r} : server'[q] = server[q]
    BY <1>0, <2>1, <2>2, SendEffect
  <2>4. States(c)' = States(c)
    <3>1. \A n \in Attempts : [by |-> c, attempt |-> n] \in Requests \ {r}
      BY <1>0, <2>1, KindOfAttempt, CallsAssumption DEF Attempts, Refresh, r
    <3>2. QED
      BY <2>1, <2>3, <3>1, StatesKept
  <2>5. CallAccount("refreshing", Refresh, told'[c].verdict, outcome[c], States(c))
    BY <1>0, <2>1, RefreshAccount DEF CallInv
  <2>6. phase'[c] = "refreshing" /\ attempt'[c] = Refresh
    BY <1>0, <2>1 DEF Enter
  <2>7. CallInv(c)'
    BY <2>1, <2>4, <2>5, <2>6 DEF CallInv
  <2>8. QED
    BY <1>0, <2>1, <2>2, <2>7, SenderStep
<1>6. QED
  BY <1>2, <1>3, <1>4, <1>5

\* A future that stops waiting takes its entry from the correlator, or leaves it.
LEMMA CancelKeepsKinds ==
  ASSUME PendingKinds, NEW r, pending' = CancelRequest(pending, r) \/ pending' = pending
  PROVE  PendingKinds'
BY DEF PendingKinds, CancelRequest, KindOf

LEMMA ForgetEffect ==
  ASSUME CallsTypeOK, NEW c \in Callers, Forget(c)
  PROVE  told' \in [Callers -> Tellings] /\ \A d \in Callers \ {c} : told'[d] = told[d]
BY DEF CallsTypeOK, Forget, Untold, Tellings, Verdicts, Absent

\* A future that takes its place, or its backoff.
LEMMA WaitingSteps ==
  ASSUME ExecutionInv, SlotInv', NEW c \in Callers, Mutate(c) \/ BacksOff(c)
  PROVE  ExecutionInv'
<1>0. CallsTypeOK /\ PendingKinds /\ phase \in [Callers -> Phases] /\ (c \in Mutators => CallInv(c))
  BY DEF ExecutionInv, SlotInv, SlotTypeOK
<1>1. UNCHANGED <<socket, conns, pending, attempt, outcome, told, server, version>>
  BY DEF Mutate, BacksOff, world
<1>2. CallsTypeOK' /\ PendingKinds' /\ \A d \in Mutators : States(d)' = States(d)
  BY <1>0, <1>1 DEF CallsTypeOK, PendingKinds, States, KindOf
<1>3. ASSUME NEW p \in {"queued", "claimed", "sleeping"}, Enter(c, p), c \in Mutators => CallInv(c)',
             p = "sleeping" => attempt[c] < MaxRetries
      PROVE  ExecutionInv'
  <2>1. phase'[c] = p /\ \A d \in Callers \ {c} : phase'[d] = phase[d]
    BY <1>0, <1>3 DEF Enter
  <2>2. QED
    BY <1>1, <1>2, <1>3, <2>1, CallerStep
<1>4. CASE Mutate(c)
  <2>1. PICK p \in {"queued", "claimed"} : Enter(c, p)
    BY <1>4 DEF Mutate
  <2>2. phase[c] = "new" /\ c \in Mutators /\ phase'[c] = p
    BY <1>0, <1>4, <2>1 DEF Mutate, Enter
  <2>3. CallInv(c)'
    BY <1>0, <1>1, <1>2, <2>2, TakeAccount DEF CallInv
  <2>4. QED
    BY <1>3, <2>1, <2>3
<1>5. CASE BacksOff(c)
  <2>1. phase[c] = "running" /\ told[c].verdict = "limited" /\ attempt[c] < MaxRetries /\ Enter(c, "sleeping")
    BY <1>5 DEF BacksOff, ToldNow
  <2>2. phase'[c] = "sleeping" /\ attempt[c] \in 0..Refresh
    BY <1>0, <2>1 DEF Enter, CallsTypeOK
  <2>3. c \in Mutators => CallInv(c)'
    BY <1>0, <1>1, <1>2, <2>1, <2>2, SleepAccount DEF CallInv
  <2>4. QED
    BY <1>3, <2>1, <2>3
<1>6. QED
  BY <1>4, <1>5

\* A future that goes: what is left to show is its account.
LEMMA GoingStep ==
  ASSUME ExecutionInv, SlotInv', NEW c \in Callers, NEW p \in {"ended", "dropped", "lost"}, FinishMutation(c, p), Forget(c),
         PendingKinds', UNCHANGED <<socket, conns, attempt, server, version>>,
         DOMAIN outcome' = Callers, \A d \in Callers \ {c} : outcome'[d] = outcome[d],
         c \in Mutators => CallAccount(p, attempt[c], told'[c].verdict, outcome'[c], States(c))
  PROVE  ExecutionInv'
<1>0. CallsTypeOK /\ SlotInv /\ p \in Phases
  BY DEF ExecutionInv, Phases
<1>1. told' \in [Callers -> Tellings] /\ \A d \in Callers \ {c} : told'[d] = told[d]
  BY <1>0, ForgetEffect
<1>2. CallsTypeOK' /\ \A d \in Mutators : States(d)' = States(d)
  BY <1>0, <1>1 DEF CallsTypeOK, States
<1>3. /\ phase'[c] = p
      /\ \A d \in Callers \ {c} : phase'[d] = phase[d] \/ (phase[d] = "queued" /\ phase'[d] = "granted")
  BY <1>0, FinishEffect
<1>4. c \in Mutators => CallInv(c)'
  BY <1>2, <1>3 DEF CallInv
<1>5. QED
  BY <1>1, <1>2, <1>3, <1>4, CallerStep

LEMMA GoingSteps ==
  ASSUME ExecutionInv, SlotInv', NEW c \in Callers, Answered(c) \/ EndsRefresh(c) \/ TimesOut(c) \/ DropCall(c)
  PROVE  ExecutionInv'
<1>0. /\ PendingKinds
      /\ CallsTypeOK /\ DOMAIN outcome = Callers /\ attempt[c] \in 0..Refresh
      /\ c \in Mutators => CallAccount(phase[c], attempt[c], told[c].verdict, outcome[c], States(c))
  BY DEF ExecutionInv, CallsTypeOK, CallInv
<1>1. Forget(c) /\ UNCHANGED <<socket, conns, attempt, server, version>>
  BY DEF Answered, EndsRefresh, TimesOut, DropCall, world
<1>2. PendingKinds'
  BY <1>0, CancelKeepsKinds DEF Answered, EndsRefresh, TimesOut, DropCall
<1>3. ASSUME NEW result, Return(c, result),
             c \in Mutators => CallAccount("ended", attempt[c], told'[c].verdict, result, States(c))
      PROVE  ExecutionInv'
  <2>1. FinishMutation(c, "ended") /\ outcome' = [outcome EXCEPT ![c] = result]
    BY <1>3 DEF Return
  <2>2. DOMAIN outcome' = Callers /\ outcome'[c] = result /\ \A d \in Callers \ {c} : outcome'[d] = outcome[d]
    BY <1>0, <2>1
  <2>3. QED
    BY <1>1, <1>2, <1>3, <2>1, <2>2, GoingStep
<1>4. CASE Answered(c)
  <2>1. phase[c] = "running" /\ Return(c, told[c].verdict)
    BY <1>4 DEF Answered, ToldNow
  <2>2. c \in Mutators => CallAccount("ended", attempt[c], told'[c].verdict, told[c].verdict, States(c))
    BY <1>0, <2>1, ReturnAccount
  <2>3. QED
    BY <1>3, <2>1, <2>2
<1>5. CASE EndsRefresh(c)
  <2>1. phase[c] = "refreshing" /\ Return(c, "ok")
    BY <1>5 DEF EndsRefresh
  <2>2. c \in Mutators => CallAccount("ended", attempt[c], told'[c].verdict, "ok", States(c))
    BY <1>0, <2>1, RefreshedAccount
  <2>3. QED
    BY <1>3, <2>1, <2>2
<1>6. CASE TimesOut(c)
  <2>1. CASE phase[c] = "refreshing"
    <3>1. Return(c, "ok")
      BY <1>6, <2>1 DEF TimesOut
    <3>2. c \in Mutators => CallAccount("ended", attempt[c], told'[c].verdict, "ok", States(c))
      BY <1>0, <2>1, RefreshedAccount
    <3>3. QED
      BY <1>3, <3>1, <3>2
  <2>2. CASE phase[c] = "running"
    <3>1. Return(c, "timeout")
      BY <1>6, <2>2 DEF TimesOut
    <3>2. c \in Mutators => CallAccount("ended", attempt[c], told'[c].verdict, "timeout", States(c))
      BY <1>0, <2>2, ReturnAccount
    <3>3. QED
      BY <1>3, <3>1, <3>2
  <2>3. QED
    BY <1>6, <2>1, <2>2 DEF TimesOut
<1>7. CASE DropCall(c)
  <2>1. PICK p \in {"dropped", "lost"} : FinishMutation(c, p)
    BY <1>7 DEF DropCall
  <2>2. phase[c] \in {"queued", "granted", "running", "sleeping", "refreshing"} /\ outcome' = outcome
    BY <1>7 DEF DropCall
  <2>3. c \in Mutators => CallAccount(p, attempt[c], told'[c].verdict, outcome[c], States(c))
    BY <1>0, <2>1, <2>2, DropAccount
  <2>4. QED
    BY <1>0, <1>1, <1>2, <2>1, <2>2, <2>3, GoingStep
<1>8. QED
  BY <1>4, <1>5, <1>6, <1>7

\* The socket: callers may be told that it closed, and nobody who was answered is told
\* anything else.
LEMMA SocketSteps ==
  ASSUME ExecutionInv, SlotInv', (\E k \in Conns : ReadEnds(k)) \/ SocketFails \/ Reconnect
  PROVE  ExecutionInv'
<1>0. CallsTypeOK /\ PendingKinds /\ \A c \in Mutators : CallInv(c)
  BY DEF ExecutionInv
<1>1. UNCHANGED <<phase, attempt, outcome, version>>
  BY DEF ReadEnds, SocketFails, Reconnect
<1>2. /\ told' \in [Callers -> Tellings] /\ PendingKinds'
      /\ \A c \in Callers : told'[c] = told[c] \/ told'[c].verdict = "closed"
  <2>1. CASE Close
    <3>1. [verdict |-> "closed", version |-> Absent] \in Tellings
      BY DEF Tellings, Verdicts, Absent
    <3>2. QED
      BY <1>0, <2>1, <3>1 DEF Close, CallsTypeOK, PendingKinds, NothingPending
  <2>2. CASE Reconnect
    BY <1>0, <2>2 DEF Reconnect, CallsTypeOK, PendingKinds, KindOf
  <2>3. QED
    BY <2>1, <2>2 DEF ReadEnds, SocketFails
<1>3. /\ server' \in [Requests -> ServerRecords]
      /\ \A q \in Requests : server'[q].state = server[q].state
  <2>1. CASE server' = server
    BY <1>0, <2>1 DEF CallsTypeOK
  <2>2. ASSUME NEW k \in Conns, server' = Forgotten(k)
        PROVE  server' \in [Requests -> ServerRecords] /\ \A q \in Requests : server'[q].state = server[q].state
    BY <1>0, <2>2 DEF Forgotten, CallsTypeOK, ServerRecords
  <2>3. QED
    BY <2>1, <2>2 DEF ReadEnds, SocketFails, Reconnect
<1>4. socket' \in Conns \cup {None} /\ conns' \in Conns
  BY <1>0, CallsAssumption DEF ReadEnds, SocketFails, Reconnect, Close, CallsTypeOK, Conns
<1>5. CallsTypeOK'
  BY <1>0, <1>1, <1>2, <1>3, <1>4 DEF CallsTypeOK
<1>6. ASSUME NEW c \in Mutators PROVE CallInv(c)'
  <2>1. States(c)' = States(c)
    BY <1>0, <1>3, KindOfAttempt, StatesKept
  <2>2. told'[c] = told[c] \/ told'[c].verdict = "closed"
    BY <1>2 DEF Callers
  <2>3. QED
    BY <1>0, <1>1, <2>1, <2>2 DEF CallInv, CallAccount
<1>7. QED
  BY <1>1, <1>2, <1>5, <1>6 DEF ExecutionInv

LEMMA ExecutionInvNext == ExecutionInv /\ [Next]_vars => ExecutionInv'
<1> SUFFICES ASSUME ExecutionInv, [Next]_vars PROVE ExecutionInv'
  OBVIOUS
<1>1. SlotInv'
  BY SlotInvNext DEF ExecutionInv
<1>2. CASE UNCHANGED vars
  <2>1. UNCHANGED <<socket, conns, pending, phase, attempt, outcome, told, server, version>>
    BY <1>2 DEF vars
  <2>2. CallsTypeOK' /\ PendingKinds' /\ \A c \in Mutators : CallInv(c)'
    BY <2>1 DEF ExecutionInv, CallsTypeOK, PendingKinds, KindOf, CallInv, States
  <2>3. QED
    BY <1>1, <2>1, <2>2 DEF ExecutionInv
<1>3. ASSUME NEW c \in Callers, Query(c) \/ Mutate(c) \/ Polled(c) \/ DropCall(c)
      PROVE  ExecutionInv'
  BY <1>1, <1>3, SendingSteps, WaitingSteps, GoingSteps DEF Polled
<1>4. QED
  BY <1>1, <1>2, <1>3, SocketSteps, ServerStepKeeps DEF Next

\* No two attempts of a call are ever executed.
LEMMA AccountExecutesOnce ==
  ASSUME ExecutionInv
  PROVE  CallsExecuteOnce
<1> SUFFICES ASSUME NEW c \in Mutators
             PROVE  /\ Cardinality(ExecutedAttempts(c)) <= 1
                    /\ outcome[c] = "ok" => ExecutedAttempts(c) # {}
                    /\ outcome[c] \in {"limited", "refused"} => ExecutedAttempts(c) = {}
  BY DEF CallsExecuteOnce
<1>1. CallAccount(phase[c], attempt[c], told[c].verdict, outcome[c], States(c)) /\ attempt[c] \in 0..Refresh
  BY DEF ExecutionInv, CallInv, CallsTypeOK, Callers
<1>2. ExecutedAttempts(c) = {n \in Attempts : States(c)[n] = "executed"}
  BY DEF ExecutedAttempts, Attempts, States
<1>3. PICK a \in Attempts : ExecutedAttempts(c) \subseteq {a}
  <2>1. CASE attempt[c] \in Attempts
    <3>1. \A n \in Attempts \ {attempt[c]} : States(c)[n] # "executed"
      BY <1>1, <2>1, CallsAssumption DEF CallAccount, Attempts
    <3>2. QED
      BY <1>2, <2>1, <3>1
  <2>2. CASE attempt[c] = Refresh
    BY <1>1, <1>2, <2>2 DEF CallAccount
  <2>3. QED
    BY <1>1, <2>1, <2>2, CallsAssumption DEF Attempts, Refresh
<1>4. Cardinality(ExecutedAttempts(c)) <= 1
  <2>1. Cardinality({a}) = 1 /\ IsFiniteSet({a})
    BY FS_Singleton
  <2>2. QED
    BY <1>3, <2>1, FS_Subset
<1>5. QED
  BY <1>1, <1>2, <1>4 DEF CallAccount

\* Whatever is dropped, refused, timed out or retried, and however sockets close: a call
\* is executed at most once, and what it returns is what the server did with it.
THEOREM CallsExecuteAtMostOnce == Spec => []CallsExecuteOnce
<1>1. ExecutionInv => CallsExecuteOnce
  BY AccountExecutesOnce
<1>2. QED
  BY <1>1, ExecutionInvInit, ExecutionInvNext, PTL DEF Spec

-----------------------------------------------------------------------------
(* The cache.  The refresh after a mutation is answered later than the mutation was
   executed, so what it brings is not older. *)

VersionInv ==
  /\ cache \in [version : Nat, dirty : BOOLEAN]
  /\ \A r \in Requests : server[r].version <= version
  /\ \A c \in Mutators, n \in Attempts :
       phase[c] = "refreshing" /\ told[c].verdict = "ok" =>
         server[[by |-> c, attempt |-> n]].version <= told[c].version

RefreshInv == ExecutionInv /\ VersionInv

LEMMA VersionInvInit == Init => VersionInv
BY CallsAssumption, KindOfAttempt DEF Init, VersionInv, Absent, Attempts, Callers, Refresh

\* Nobody is told anything new about a refresh, and no mutation is executed.
LEMMA VersionsStay ==
  ASSUME CallsTypeOK, CallsTypeOK', VersionInv, version' = version,
         cache' \in [version : Nat, dirty : BOOLEAN],
         \A r \in Requests : server'[r].version \in {server[r].version, Absent},
         \A c \in Mutators : phase'[c] = "refreshing" /\ told'[c].verdict = "ok" =>
                               phase[c] = "refreshing" /\ told'[c] = told[c]
  PROVE  VersionInv'
<1>1. \A r \in Requests : server[r].version \in Nat /\ server'[r].version \in Nat
  BY DEF CallsTypeOK, ServerRecords
<1>2. \A c \in Mutators : told[c].version \in Nat /\ told'[c].version \in Nat
  BY DEF CallsTypeOK, Tellings, Callers
<1>3. version \in Nat /\ Absent = 0
  BY DEF CallsTypeOK, Absent
<1>4. \A r \in Requests : server'[r].version <= version'
  BY <1>1, <1>3 DEF VersionInv
<1>5. ASSUME NEW c \in Mutators, NEW n \in Attempts, phase'[c] = "refreshing", told'[c].verdict = "ok"
      PROVE  server'[[by |-> c, attempt |-> n]].version <= told'[c].version
  <2>1. [by |-> c, attempt |-> n] \in Requests
    BY KindOfAttempt
  <2> DEFINE r == [by |-> c, attempt |-> n]
  <2>2. server[r].version <= told[c].version /\ told'[c] = told[c]
    BY <1>5 DEF VersionInv
  <2> HIDE DEF r
  <2>3. server'[r].version <= told'[c].version
    BY <1>1, <1>2, <1>3, <2>1, <2>2 DEF r
  <2>4. QED
    BY <2>3 DEF r
<1>6. QED
  BY <1>4, <1>5 DEF VersionInv

\* Who waits for a refresh is told "ok" by the answer to it, and by nothing else.
LEMMA RefreshIsAQuery ==
  ASSUME CallsTypeOK, NEW c \in Mutators, CallInv(c), phase[c] = "refreshing", NEW r \in Requests, Awaits(c, r)
  PROVE  r.attempt = Refresh /\ KindOf(r) = "query"
<1>1. attempt[c] = Refresh /\ Request(c) = r /\ c \in Callers
  BY DEF CallInv, CallAccount, Awaits, Callers
<1>2. QED
  BY <1>1, RequestType DEF KindOf

\* An attempt of a mutation that is followed by its refresh is settled.
LEMMA RefreshingIsSettled ==
  ASSUME CallsTypeOK, NEW c \in Mutators, CallInv(c), phase[c] = "refreshing", NEW n \in Attempts
  PROVE  server[[by |-> c, attempt |-> n]].state \notin {"received", "accepted"}
<1>1. attempt[c] = Refresh /\ States(c)[n] \in {"executed", "refused", "unsent"}
  BY DEF CallInv, CallAccount
<1>2. QED
  BY <1>1 DEF States

LEMMA ServerVersions ==
  ASSUME ExecutionInv, ExecutionInv', VersionInv, ServerStep
  PROVE  VersionInv'
<1>0. /\ CallsTypeOK /\ CallsTypeOK' /\ PendingKinds /\ phase' = phase
      /\ \A c \in Mutators : CallInv(c) /\ c \in Callers
  BY DEF ExecutionInv, ServerStep, Callers
<1>1. PICK r \in Requests : AnswerQuery(r) \/ Refuse(r) \/ Acknowledge(r) \/ Execute(r)
  BY DEF ServerStep
<1>2. Absent \in Nat /\ version \in Nat /\ version + 1 \in Nat /\ FALSE \in BOOLEAN
  BY <1>0 DEF Absent, CallsTypeOK
<1>3. ASSUME NEW kind, NEW limited, NEW v \in Nat, Reply(r, Frame(kind, r, limited, v))
      PROVE  cache' \in [version : Nat, dirty : BOOLEAN]
  <2>1. CASE server[r].conn = None
    BY <1>3, <2>1 DEF Reply, VersionInv
  <2>2. CASE server[r].conn # None
    <3>1. cache' = cache \/ cache' = [cache EXCEPT !.version = v]
      BY <1>3, <2>2 DEF Reply, Route, Frame
    <3>2. QED
      BY <1>3, <3>1 DEF VersionInv
  <2>3. QED
    BY <2>1, <2>2
<1>4. ASSUME NEW new \in ServerRecords, server' = [server EXCEPT ![r] = new], new.version = server[r].version
      PROVE  \A q \in Requests : server'[q].version \in {server[q].version, Absent}
  BY <1>0, <1>4 DEF CallsTypeOK
<1>5. ASSUME NEW st \in ServerStates, server' = [server EXCEPT ![r].state = st]
      PROVE  \A q \in Requests : server'[q].version \in {server[q].version, Absent}
  <2> DEFINE new == [server[r] EXCEPT !.state = st]
  <2>1. new \in ServerRecords /\ new.version = server[r].version /\ server' = [server EXCEPT ![r] = new]
    BY <1>0, <1>5 DEF CallsTypeOK, ServerRecords
  <2>2. QED
    BY <1>4, <2>1
<1>6. CASE AnswerQuery(r)
  <2>1. Reply(r, Frame("result", r, FALSE, version)) /\ version' = version /\ "result" \in FrameKinds
    BY <1>6 DEF AnswerQuery, FrameKinds
  <2>2. \A q \in Requests : server'[q].version \in {server[q].version, Absent}
    BY <1>5, <1>6 DEF AnswerQuery, ServerStates
  <2>3. \A c \in Callers : told'[c] = told[c] \/ told'[c].version = version
    BY <1>0, <1>2, <2>1, ReplyEffect
  <2>4. \A q \in Requests : server'[q].version <= version
    <3>1. \A q \in Requests : server[q].version <= version
      BY DEF VersionInv
    <3>2. QED
      BY <1>2, <2>2, <3>1 DEF Absent
  <2>5. ASSUME NEW c \in Mutators, NEW n \in Attempts, phase'[c] = "refreshing", told'[c].verdict = "ok"
        PROVE  server'[[by |-> c, attempt |-> n]].version <= told'[c].version
    <3> DEFINE q == [by |-> c, attempt |-> n]
    <3>1. q \in Requests
      BY <1>0, KindOfAttempt
    <3>2. CASE told'[c] = told[c]
      <4>1. server[q].version <= told[c].version /\ told[c].version \in Nat
        BY <1>0, <2>5, <3>2 DEF VersionInv, CallsTypeOK, Tellings
      <4>2. server'[q].version \in {server[q].version, 0}
        BY <2>2, <3>1 DEF Absent
      <4> HIDE DEF q
      <4>3. server'[q].version <= told'[c].version
        BY <3>2, <4>1, <4>2
      <4>4. QED
        BY <4>3 DEF q
    <3>3. CASE told'[c].version = version
      BY <2>4, <3>1, <3>3
    <3>4. QED
      BY <1>0, <2>3, <3>2, <3>3
  <2>6. QED
    BY <1>2, <1>3, <2>1, <2>4, <2>5 DEF VersionInv
<1>7. CASE Refuse(r)
  <2>1. PICK kind \in {"error", "action_error"}, limited \in BOOLEAN : Reply(r, Frame(kind, r, limited, Absent))
    BY <1>7 DEF Refuse
  <2> DEFINE f == Frame(kind, r, limited, Absent)
  <2>2. /\ version' = version /\ kind \in FrameKinds
        /\ \A q \in Requests : server'[q].version \in {server[q].version, Absent}
    BY <1>5, <1>7 DEF Refuse, FrameKinds, ServerStates
  <2>3. \A c \in Callers : told'[c] = told[c] \/ (told'[c].verdict = Verdict(pending, f) /\ Verdict(pending, f) # None)
    BY <1>0, <1>2, <2>1, <2>2, ReplyEffect
  <2>4. Verdict(pending, f) \in {None, "limited", "refused"}
    BY DEF Verdict, Frame
  <2>5. \A c \in Mutators : told'[c] = told[c] \/ told'[c].verdict # "ok"
    BY <1>0, <2>3, <2>4
  <2>6. QED
    BY <1>0, <1>2, <1>3, <2>1, <2>2, <2>5, VersionsStay
<1>8. CASE Acknowledge(r)
  <2>1. /\ Reply(r, Frame("ack", r, FALSE, Absent)) /\ version' = version /\ "ack" \in FrameKinds
        /\ KindOf(r) = "mutation"
        /\ \A q \in Requests : server'[q].version \in {server[q].version, Absent}
    BY <1>5, <1>8 DEF Acknowledge, FrameKinds, ServerStates
  <2>2. \A c \in Mutators : told'[c] = told[c]
    BY <1>0, <1>2, <2>1, ReplyEffect
  <2>3. QED
    BY <1>0, <1>2, <1>3, <2>1, <2>2, VersionsStay
<1>9. CASE Execute(r)
  <2>1. PICK kind \in {"result", "action_result"}, v \in {Absent, version + 1} : Reply(r, Frame(kind, r, FALSE, v))
    BY <1>9 DEF Execute
  <2>2. /\ server[r].state \in {"received", "accepted"} /\ KindOf(r) = "mutation" /\ version' = version + 1
        /\ server' = [server EXCEPT ![r].state = "executed", ![r].version = version + 1]
    BY <1>9 DEF Execute
  <2>3. kind \in FrameKinds /\ v \in Nat
    BY <1>2 DEF FrameKinds
  <2>4. \A c \in Callers : told'[c] = told[c] \/ Awaits(c, r)
    BY <1>0, <1>2, <2>1, <2>3, ReplyEffect
  <2>5. (\A q \in Requests \ {r} : server'[q] = server[q]) /\ server'[r].version = version + 1
    BY <1>0, <2>2 DEF CallsTypeOK, ServerRecords
  <2>6. \A q \in Requests : server'[q].version <= version'
    <3>1. \A q \in Requests : server[q].version <= version /\ server[q].version \in Nat
      BY <1>0 DEF VersionInv, CallsTypeOK, ServerRecords
    <3>2. QED
      <4>1. version' = version + 1
        BY <2>2
      <4>2. QED
        BY <1>2, <2>5, <3>1, <4>1
  <2>7. ASSUME NEW c \in Mutators, NEW n \in Attempts, phase'[c] = "refreshing", told'[c].verdict = "ok"
        PROVE  server'[[by |-> c, attempt |-> n]].version <= told'[c].version
    <3>1. [by |-> c, attempt |-> n] \in Requests /\ [by |-> c, attempt |-> n] # r
      BY <1>0, <2>2, <2>7, KindOfAttempt, RefreshingIsSettled
    <3>2. ~Awaits(c, r)
      BY <1>0, <2>2, <2>7, RefreshIsAQuery
    <3>3. told'[c] = told[c]
      BY <1>0, <2>4, <3>2
    <3>4. QED
      BY <1>0, <2>5, <2>7, <3>1, <3>3 DEF VersionInv
  <2>8. QED
    BY <1>3, <2>1, <2>3, <2>6, <2>7 DEF VersionInv
<1>10. QED
  BY <1>1, <1>6, <1>7, <1>8, <1>9

\* A future that sends is told nothing yet.
LEMMA SendingVersions ==
  ASSUME ExecutionInv, ExecutionInv', VersionInv, NEW c \in Callers,
         Query(c) \/ FirstAttempt(c) \/ RetryAttempt(c) \/ BeginsRefresh(c)
  PROVE  VersionInv'
<1>0. CallsTypeOK /\ CallsTypeOK' /\ PendingKinds /\ phase \in [Callers -> Phases]
  BY DEF ExecutionInv, SlotInv, SlotTypeOK
<1>1. /\ cache' = cache /\ version' = version
      /\ \E p \in Phases : Enter(c, p)
      /\ \E r \in Requests : r.by = c /\ Send(r)
  <2>1. attempt[c] \in 0..Refresh /\ (phase[c] = "sleeping" => attempt[c] < MaxRetries)
    BY DEF ExecutionInv, CallsTypeOK
  <2>2. Request(c) \in Requests /\ Request(c).by = c
    BY <1>0, RequestType
  <2>3. CASE RetryAttempt(c)
    <3> DEFINE r == [Request(c) EXCEPT !.attempt = @ + 1]
    <3>1. r = [by |-> c, attempt |-> attempt[c] + 1]
      BY DEF Request
    <3>2. r \in Requests /\ r.by = c
      BY <2>1, <2>3, <3>1, CallsAssumption DEF RetryAttempt, Refresh
    <3>3. Send(r) /\ Enter(c, "running") /\ cache' = cache /\ version' = version
      BY <2>3 DEF RetryAttempt
    <3> HIDE DEF r
    <3>4. QED
      BY <3>2, <3>3 DEF Phases
  <2>4. CASE BeginsRefresh(c)
    <3>1. [by |-> c, attempt |-> Refresh] \in Requests
      BY CallsAssumption DEF Refresh
    <3>2. QED
      BY <2>4, <3>1 DEF BeginsRefresh, Phases
  <2>5. CASE Query(c) \/ FirstAttempt(c)
    BY <2>2, <2>5 DEF Query, FirstAttempt, Phases
  <2>6. QED
    BY <2>3, <2>4, <2>5
<1>2. PICK r \in Requests : r.by = c /\ Send(r)
  BY <1>1
<1>3. /\ told'[c].verdict \in {"open", "closed"} /\ \A d \in Callers \ {c} : told'[d] = told[d]
      /\ \A q \in Requests \ {r} : server'[q] = server[q]
      /\ server'[r].version \in {server[r].version, Absent}
  BY <1>0, <1>2, SendEffect
<1>4. \A d \in Callers \ {c} : phase'[d] = phase[d]
  BY <1>0, <1>1 DEF Enter
<1>5. \A q \in Requests : server'[q].version \in {server[q].version, Absent}
  BY <1>3
<1>6. cache' \in [version : Nat, dirty : BOOLEAN]
  BY <1>1 DEF VersionInv
<1>7. \A d \in Mutators : phase'[d] = "refreshing" /\ told'[d].verdict = "ok" =>
                            phase[d] = "refreshing" /\ told'[d] = told[d]
  BY <1>3, <1>4 DEF Callers
<1>8. QED
  BY <1>0, <1>1, <1>5, <1>6, <1>7, VersionsStay

\* A future that waits or goes leaves the answers of the others.
LEMMA CallerVersions ==
  ASSUME ExecutionInv, ExecutionInv', VersionInv, NEW c \in Callers,
         Mutate(c) \/ BacksOff(c) \/ Answered(c) \/ EndsRefresh(c) \/ TimesOut(c) \/ DropCall(c)
  PROVE  VersionInv'
<1>0. CallsTypeOK /\ CallsTypeOK' /\ SlotInv /\ phase \in [Callers -> Phases] /\ told[c].version \in Nat
  BY DEF ExecutionInv, SlotInv, SlotTypeOK, CallsTypeOK, Tellings
<1>1. version' = version /\ server' = server
  BY DEF Mutate, BacksOff, Answered, EndsRefresh, TimesOut, DropCall, world
<1>2. \A d \in Callers \ {c} : told'[d] = told[d]
  <2>1. CASE Mutate(c) \/ BacksOff(c)
    BY <2>1 DEF Mutate, BacksOff
  <2>2. CASE Answered(c) \/ EndsRefresh(c) \/ TimesOut(c) \/ DropCall(c)
    BY <1>0, <2>2, ForgetEffect DEF Answered, EndsRefresh, TimesOut, DropCall
  <2>3. QED
    BY <2>1, <2>2
<1>3. phase'[c] # "refreshing" /\ \A d \in Callers \ {c} : phase'[d] = "refreshing" => phase[d] = "refreshing"
  <2>1. CASE Mutate(c) \/ BacksOff(c)
    BY <1>0, <2>1 DEF Mutate, BacksOff, Enter
  <2>2. CASE Answered(c) \/ EndsRefresh(c) \/ TimesOut(c) \/ DropCall(c)
    <3>1. PICK p \in {"ended", "dropped", "lost"} : FinishMutation(c, p)
      BY <2>2 DEF Answered, EndsRefresh, TimesOut, DropCall, Return
    <3>2. p \in Phases /\ p # "refreshing"
      BY DEF Phases
    <3>3. QED
      BY <1>0, <3>1, <3>2, FinishEffect
  <2>3. QED
    BY <2>1, <2>2
<1>4. cache' \in [version : Nat, dirty : BOOLEAN]
  <2>1. cache' \in {cache, [version |-> told[c].version, dirty |-> FALSE], [cache EXCEPT !.dirty = TRUE]}
    BY DEF Mutate, BacksOff, Answered, EndsRefresh, TimesOut, DropCall
  <2>2. cache \in [version : Nat, dirty : BOOLEAN]
    BY DEF VersionInv
  <2>3. [version |-> told[c].version, dirty |-> FALSE] \in [version : Nat, dirty : BOOLEAN]
    BY <1>0
  <2>4. [cache EXCEPT !.dirty = TRUE] \in [version : Nat, dirty : BOOLEAN]
    BY <2>2
  <2>5. QED
    BY <2>1, <2>2, <2>3, <2>4
<1>5. QED
  BY <1>0, <1>1, <1>2, <1>3, <1>4, VersionsStay DEF Callers

\* A socket that closes tells nobody "ok".
LEMMA SocketVersions ==
  ASSUME ExecutionInv, ExecutionInv', VersionInv, (\E k \in Conns : ReadEnds(k)) \/ SocketFails \/ Reconnect
  PROVE  VersionInv'
<1>0. CallsTypeOK /\ CallsTypeOK'
  BY DEF ExecutionInv
<1>1. phase' = phase /\ version' = version /\ cache' = cache
  BY DEF ReadEnds, SocketFails, Reconnect
<1>2. \A c \in Mutators : told'[c] = told[c] \/ told'[c].verdict = "closed"
  BY DEF ReadEnds, SocketFails, Reconnect, Close, Callers
<1>3. \A q \in Requests : server'[q].version = server[q].version
  <2>1. CASE server' = server
    BY <2>1
  <2>2. ASSUME NEW k \in Conns, server' = Forgotten(k)
        PROVE  \A q \in Requests : server'[q].version = server[q].version
    BY <1>0, <2>2 DEF Forgotten, CallsTypeOK, ServerRecords
  <2>3. QED
    BY <2>1, <2>2 DEF ReadEnds, SocketFails, Reconnect
<1>4. QED
  BY <1>0, <1>1, <1>2, <1>3, VersionsStay DEF VersionInv

LEMMA RefreshInvNext == RefreshInv /\ [Next]_vars => RefreshInv'
<1> SUFFICES ASSUME ExecutionInv, VersionInv, [Next]_vars PROVE ExecutionInv' /\ VersionInv'
  BY DEF RefreshInv
<1>1. ExecutionInv'
  BY ExecutionInvNext
<1>2. CASE UNCHANGED vars
  <2>1. UNCHANGED <<phase, told, cache, server, version>>
    BY <1>2 DEF vars
  <2>2. QED
    BY <1>1, <2>1 DEF VersionInv
<1>3. ASSUME NEW c \in Callers, Query(c) \/ Mutate(c) \/ Polled(c) \/ DropCall(c)
      PROVE  VersionInv'
  BY <1>1, <1>3, SendingVersions, CallerVersions DEF Polled
<1>4. QED
  BY <1>1, <1>2, <1>3, SocketVersions, ServerVersions DEF Next

\* The step by which a refresh ends.
LEMMA RefreshEnds ==
  ASSUME RefreshInv, Next, NEW c \in Mutators, phase[c] = "refreshing", phase'[c] = "ended"
  PROVE  \/ cache'.dirty
         \/ \A n \in ExecutedAttempts(c) :
              cache'.version >= server[[by |-> c, attempt |-> n]].version
<1>0. /\ CallsTypeOK /\ SlotInv /\ c \in Callers /\ phase \in [Callers -> Phases] /\ VersionInv
      /\ cache \in [version : Nat, dirty : BOOLEAN] /\ told[c].version \in Nat
  BY DEF RefreshInv, ExecutionInv, SlotInv, SlotTypeOK, VersionInv, Callers, CallsTypeOK, Tellings
<1>1. EndsRefresh(c) \/ TimesOut(c)
  <2>1. ~(ServerStep \/ SocketFails \/ Reconnect \/ \E k \in Conns : ReadEnds(k))
    BY DEF ServerStep, SocketFails, Reconnect, ReadEnds
  <2>2. PICK d \in Callers : Query(d) \/ Mutate(d) \/ Polled(d) \/ DropCall(d)
    BY <2>1 DEF Next
  <2>3. ~(Query(d) \/ Mutate(d) \/ FirstAttempt(d) \/ RetryAttempt(d) \/ BacksOff(d) \/ BeginsRefresh(d))
    <3>1. ASSUME NEW p \in Phases \ {"ended"}, Enter(d, p) PROVE FALSE
      BY <1>0, <3>1 DEF Enter
    <3>2. QED
      BY <3>1 DEF Query, Mutate, FirstAttempt, RetryAttempt, BacksOff, BeginsRefresh, Phases
  <2>4. PICK p \in {"ended", "dropped", "lost"} : FinishMutation(d, p)
    BY <2>2, <2>3 DEF Polled, Answered, EndsRefresh, TimesOut, DropCall, Return
  <2>5. p \in Phases
    BY DEF Phases
  <2>6. d = c /\ p = "ended"
    BY <1>0, <2>4, <2>5, FinishEffect
  <2>7. ~Answered(c)
    BY DEF Answered
  <2>8. ~DropCall(c)
    <3>1. ASSUME DropCall(c) PROVE FALSE
      <4>1. PICK q \in {"dropped", "lost"} : FinishMutation(c, q)
        BY <3>1 DEF DropCall
      <4>2. q \in Phases
        BY DEF Phases
      <4>3. QED
        BY <1>0, <4>1, <4>2, FinishEffect
    <3>2. QED
      BY <3>1
  <2>9. QED
    BY <2>2, <2>3, <2>6, <2>7, <2>8 DEF Polled
<1>2. CASE cache' = [cache EXCEPT !.dirty = TRUE]
  BY <1>0, <1>2
<1>3. CASE EndsRefresh(c) /\ told[c].verdict = "ok"
  <2>1. cache'.version = told[c].version
    BY <1>3 DEF EndsRefresh, ToldNow
  <2>2. ASSUME NEW n \in ExecutedAttempts(c)
        PROVE  cache'.version >= server[[by |-> c, attempt |-> n]].version
    <3>1. n \in Attempts
      BY DEF ExecutedAttempts, Attempts
    <3> DEFINE v == server[[by |-> c, attempt |-> n]].version
    <3>2. v <= told[c].version
      BY <1>0, <1>3, <3>1 DEF VersionInv
    <3>3. v \in Nat
      BY <1>0, <3>1, KindOfAttempt DEF CallsTypeOK, ServerRecords
    <3> HIDE DEF v
    <3>4. cache'.version >= v
      BY <1>0, <2>1, <3>2, <3>3
    <3>5. QED
      BY <3>4 DEF v
  <2>3. QED
    BY <2>2
<1>4. QED
  BY <1>1, <1>2, <1>3 DEF EndsRefresh, TimesOut, ToldNow

\* A mutation that is followed by a refresh returns when the cache shows it, or says
\* that it may not: the answer of the refresh left the server after the mutation was
\* executed, whatever other mutations, refusals and closes come between.
THEOREM RefreshIsNotOlder == Spec => RefreshShowsMutation
<1>1. Init => RefreshInv
  BY ExecutionInvInit, VersionInvInit DEF RefreshInv
<1>2. RefreshInv /\ [Next]_vars =>
        [\A c \in Mutators : phase[c] = "refreshing" /\ phase'[c] = "ended" =>
           \/ cache'.dirty
           \/ \A n \in ExecutedAttempts(c) :
                cache'.version >= server[[by |-> c, attempt |-> n]].version]_vars
  BY RefreshEnds
<1>3. QED
  BY <1>1, <1>2, RefreshInvNext, PTL DEF Spec, RefreshShowsMutation

-----------------------------------------------------------------------------
\* Whatever futures are dropped, told to retry, refused or timed out, and however
\* sockets close, the slot is marked taken exactly while one mutation has it.
THEOREM SlotHasOneOwner == Spec => []OneMutationAtATime
<1>1. SlotInv => OneMutationAtATime
  BY DEF SlotInv
<1>2. QED
  BY <1>1, SlotInvInit, SlotInvNext, PTL DEF Spec

-----------------------------------------------------------------------------
(* The connection. *)

Dials == {"unopened", "silent", "greeted", "asked", "loggedIn", "ended"}
TaskStates ==
  [kind : {"none", "first", "again", "loop"}, left : Nat,
   phase : {"idle", "delayed", "dialed", "connected", "greeting", "welcomed", "authing", "restoring",
            "finishing"}]

AccountTypeOK ==
  /\ ownLoop \in BOOLEAN /\ registered \in BOOLEAN /\ wired \in BOOLEAN /\ reconnecting \in BOOLEAN
  /\ authenticated \in BOOLEAN /\ waiter \in BOOLEAN /\ missed \in BOOLEAN
  /\ conn \in [Sockets -> Dials]
  /\ current \in Opened \cup {Nil}
  /\ task \in TaskStates /\ (task = NoTask \/ (task.kind # "none" /\ task.phase # "idle"))
  /\ tails \subseteq {"ok", "failed"}

SocketsInOrder == \E n \in 0..MaxSockets : Opened = 1..n

\* Whose the task is: an account with a loop of its own leaves no results for the
\* client, and reports its own losses; the client's are taken off the map.
TasksHaveOwners ==
  /\ ownLoop => task.kind \in {"none", "loop"} /\ tails = {}
  /\ ~ownLoop => task.kind # "loop" /\ (report = "disconnected" => ~registered)
  /\ ~ownLoop /\ registered /\ ~wired => task.kind = "first"
  /\ task = NoTask => ~reconnecting

\* A socket logs in only after it has become the account's.
LoginsAreOurs ==
  /\ current # Nil /\ conn[current] = "loggedIn" => authenticated
  /\ task.phase = "dialed" => Newest \in Opened /\ conn[Newest] \notin {"asked", "loggedIn"}

\* Only what a task awaits is answered, and it is told once.
AnswersAreAwaited ==
  /\ waiter => task.phase = "greeting"
  /\ pendingAuth # Nil => task.phase = "authing"
  /\ notice = "ok" => task.phase \in {"greeting", "authing"} /\ ~waiter /\ pendingAuth = Nil

Healthy == current # Nil /\ conn[current] = "loggedIn" /\ authenticated

\* What a task leaves behind: a login, a close it did not see, or word of the loss.
Handled ==
  /\ task.phase = "finishing" => Healthy \/ missed \/ ~registered
  /\ task = NoTask =>
       Healthy \/ missed \/ ~registered \/ "failed" \in tails \/ (ownLoop /\ report = "disconnected")

AccountInv ==
  /\ AccountTypeOK /\ SocketsInOrder /\ TasksHaveOwners
  /\ LoginsAreOurs /\ AnswersAreAwaited /\ Handled

LEMMA NewestOpened ==
  ASSUME SocketsInOrder
  PROVE  Newest \in 0..MaxSockets /\ Opened = 1..Newest
<1>1. PICK n \in 0..MaxSockets : Opened = 1..n
  BY DEF SocketsInOrder
<1>2. Cardinality(1..n) = n
  BY FS_Interval, AccountAssumption
<1>3. QED
  BY <1>1, <1>2 DEF Newest

LEMMA AccountInvInit == AccountInit => AccountInv
<1> SUFFICES ASSUME AccountInit PROVE AccountInv
  OBVIOUS
<1>s. 1 \in Sockets /\ MaxSockets \in Nat /\ MaxSockets >= 1 /\ Nil \notin Nat
  BY AccountAssumption DEF Sockets
<1>1. conn \in [Sockets -> Dials] /\ Opened = (IF ownLoop THEN 1..1 ELSE 1..0)
  BY <1>s DEF AccountInit, Dials, Opened, Sockets
<1>2. AccountTypeOK
  <2>1. current \in Opened \cup {Nil}
    BY <1>1 DEF AccountInit
  <2>2. task \in TaskStates /\ (task = NoTask \/ (task.kind # "none" /\ task.phase # "idle"))
    <3>1. CASE ownLoop
      BY <3>1 DEF AccountInit, TaskStates, NoTask
    <3>2. CASE ~ownLoop
      BY <3>2, AccountAssumption DEF AccountInit, TaskStates, Task
    <3>3. QED
      BY <3>1, <3>2
  <2>3. QED
    BY <1>1, <2>1, <2>2 DEF AccountInit, AccountTypeOK
<1>3. SocketsInOrder
  <2>1. 0 \in 0..MaxSockets /\ 1 \in 0..MaxSockets
    BY <1>s
  <2>2. QED
    BY <1>1, <2>1 DEF SocketsInOrder
<1>4. TasksHaveOwners /\ LoginsAreOurs /\ AnswersAreAwaited /\ Handled
  <2>1. CASE ownLoop
    BY <1>s, <2>1, AccountAssumption
       DEF AccountInit, TasksHaveOwners, LoginsAreOurs, AnswersAreAwaited, Handled, Healthy, NoTask
  <2>2. CASE ~ownLoop
    <3>1. task.kind = "first" /\ task.phase = "delayed" /\ task # NoTask
      BY <2>2 DEF AccountInit, Task, NoTask
    <3>2. /\ tails = {} /\ current = Nil /\ ~waiter /\ pendingAuth = Nil /\ notice # "ok"
          /\ report = Nil /\ registered
      BY <2>2, AccountAssumption DEF AccountInit
    <3>3. TasksHaveOwners
      BY <2>2, <3>1, AccountAssumption DEF AccountInit, TasksHaveOwners
    <3>4. QED
      BY <3>1, <3>2, <3>3 DEF LoginsAreOurs, AnswersAreAwaited, Handled
  <2>3. QED
    BY <2>1, <2>2
<1>5. QED
  BY <1>2, <1>3, <1>4 DEF AccountInv

\* A frame or a close changes what is known of a socket that is open, not which are.
LEMMA SameSockets ==
  ASSUME conn \in [Sockets -> Dials], conn' \in [Sockets -> Dials],
         \A k \in Sockets : conn[k] = "unopened" <=> conn'[k] = "unopened"
  PROVE  Opened' = Opened /\ Newest' = Newest
<1>1. Opened' = Opened
  BY DEF Opened
<1>2. QED
  BY <1>1 DEF Newest

\* A step of the account's task.
LEMMA TaskSteps ==
  ASSUME AccountInv, TaskStep
  PROVE  AccountInv'
<1> USE DEF AccountInv
<1>s. Newest \in 0..MaxSockets /\ Opened = 1..Newest /\ MaxSockets \in Nat /\ Nil \notin Nat
  BY NewestOpened, AccountAssumption
<1>t. /\ task \in TaskStates /\ conn \in [Sockets -> Dials] /\ current \in Opened \cup {Nil}
      /\ task = NoTask \/ (task.kind # "none" /\ task.phase # "idle")
  BY DEF AccountTypeOK
<1>r. ASSUME NEW stage \in {"delayed", "dialed", "connected", "greeting", "welcomed", "authing",
                            "restoring", "finishing"},
             Reach(stage), task.phase # "idle"
      PROVE  /\ task' \in TaskStates /\ task'.kind # "none" /\ task'.phase = stage
             /\ task'.kind = task.kind /\ task # NoTask /\ task' # NoTask
  BY <1>t, <1>r DEF Reach, TaskStates, NoTask
<1>o. Opened \subseteq Sockets /\ \A k \in Sockets : k \in Opened <=> conn[k] # "unopened"
  BY DEF Opened
\* What the task does on its way, with the sockets as they are.
<1>n. ASSUME NEW stage \in {"connected", "greeting", "welcomed", "restoring", "delayed"},
             Reach(stage), task.phase # "idle", conn' = conn, ownLoop' = ownLoop, manager' = manager,
             current' = current \/ (task.phase = "dialed" /\ current' = Newest),
             authenticated' = authenticated, waiter' \in BOOLEAN,
             waiter' => stage = "greeting", pendingAuth' = Nil
      PROVE  AccountInv'
  <2>1. Opened' = Opened /\ Newest' = Newest
    BY <1>n DEF Opened, Newest
  <2>2. current' \in Opened \cup {Nil}
    BY <1>n, <1>t DEF LoginsAreOurs
  <2>3. AccountTypeOK'
    BY <1>n, <1>r, <2>1, <2>2 DEF AccountTypeOK, manager
  <2>4. TasksHaveOwners' /\ SocketsInOrder'
    BY <1>n, <1>r, <2>1 DEF TasksHaveOwners, SocketsInOrder, manager
  <2>5. LoginsAreOurs' /\ Handled'
    BY <1>n, <1>r DEF LoginsAreOurs, Handled, manager
  <2>6. AnswersAreAwaited'
    BY <1>n, <1>r, AccountAssumption DEF AnswersAreAwaited, Reach
  <2>7. QED
    BY <2>3, <2>4, <2>5, <2>6
<1>1. CASE Dial
  <2>1. Newest + 1 \in Sockets /\ Newest + 1 \notin Opened
    BY <1>1, <1>s DEF Dial, Sockets
  <2>2. conn' = [conn EXCEPT ![Newest + 1] = "silent"] /\ conn' \in [Sockets -> Dials]
    BY <1>1, <1>t DEF Dial, Dials
  <2>3. Opened' = Opened \cup {Newest + 1}
    BY <1>o, <1>t, <2>1, <2>2 DEF Opened
  <2>4. Opened' = 1..(Newest + 1) /\ Newest + 1 \in 0..MaxSockets
    BY <1>s, <2>1, <2>3 DEF Sockets
  <2>5. SocketsInOrder'
    BY <2>4 DEF SocketsInOrder
  <2>6. Newest' = Newest + 1
    <3>1. Cardinality(1..(Newest + 1)) = Newest + 1
      BY <1>s, FS_Interval
    <3>2. QED
      BY <2>4, <3>1 DEF Newest
  <2>7. /\ task' \in TaskStates /\ task'.kind # "none" /\ task'.phase = "dialed"
        /\ task'.kind = task.kind /\ task # NoTask /\ task' # NoTask
    BY <1>1, <1>r DEF Dial
  <2>8. AccountTypeOK'
    BY <1>1, <1>t, <2>2, <2>3, <2>7 DEF Dial, inside, manager, AccountTypeOK
  <2>9. TasksHaveOwners' /\ Handled'
    BY <1>1, <2>7 DEF Dial, manager, TasksHaveOwners, Handled
  <2>10. LoginsAreOurs'
    <3>1. current' = current /\ authenticated' = authenticated
      BY <1>1 DEF Dial, inside
    <3>2. current # Nil => conn'[current] = conn[current]
      BY <1>t, <1>o, <2>1, <2>2
    <3>3. conn'[Newest + 1] = "silent"
      BY <1>t, <2>1, <2>2
    <3>4. QED
      BY <2>3, <2>6, <3>1, <3>2, <3>3 DEF LoginsAreOurs
  <2>11. AnswersAreAwaited'
    BY <1>1, <1>s, <2>7, AccountAssumption DEF Dial, Reach, inside, AnswersAreAwaited
  <2>12. QED
    BY <2>5, <2>8, <2>9, <2>10, <2>11
<1>2. CASE StoreSocket
  <2>1. ~waiter /\ waiter' = waiter /\ waiter' \in BOOLEAN /\ pendingAuth = Nil /\ pendingAuth' = pendingAuth
    BY <1>2 DEF StoreSocket, AnswersAreAwaited, AccountTypeOK
  <2>2. QED
    BY <1>2, <1>n, <2>1 DEF StoreSocket, remote
<1>3. CASE AwaitWelcome
  <2>1. ~waiter /\ pendingAuth = Nil /\ pendingAuth' = pendingAuth
    BY <1>3 DEF AwaitWelcome, AnswersAreAwaited
  <2>2. CASE welcome
    <3>1. Reach("welcomed") /\ ~waiter'
      BY <1>3, <2>1, <2>2 DEF AwaitWelcome
    <3>2. waiter' \in BOOLEAN
      BY <1>3, <2>2 DEF AwaitWelcome, AccountTypeOK
    <3>3. QED
      BY <1>3, <1>n, <2>1, <3>1, <3>2 DEF AwaitWelcome, remote
  <2>3. CASE ~welcome
    BY <1>3, <1>n, <2>1, <2>3 DEF AwaitWelcome, remote
  <2>4. QED
    BY <2>2, <2>3
<1>4. CASE StartAuth
  <2>1. current \in Opened /\ current \in Sockets /\ conn[current] # "unopened"
    BY <1>4, <1>o, <1>t DEF StartAuth
  <2>2. conn' = conn \/ conn' = [conn EXCEPT ![current] = "asked"]
    BY <1>4 DEF StartAuth
  <2>3. conn' \in [Sockets -> Dials] /\ \A k \in Sockets : conn[k] = "unopened" <=> conn'[k] = "unopened"
    BY <1>t, <2>1, <2>2 DEF Dials
  <2>4. Opened' = Opened /\ Newest' = Newest
    BY <1>t, <2>3, SameSockets
  <2>5. /\ task' \in TaskStates /\ task'.kind # "none" /\ task'.phase = "authing"
        /\ task'.kind = task.kind /\ task # NoTask /\ task' # NoTask
    BY <1>4, <1>r DEF StartAuth
  <2>6. AccountTypeOK' /\ SocketsInOrder'
    BY <1>4, <1>t, <2>3, <2>4, <2>5 DEF StartAuth, manager, AccountTypeOK, SocketsInOrder
  <2>7. TasksHaveOwners' /\ Handled'
    BY <1>4, <2>5 DEF StartAuth, manager, TasksHaveOwners, Handled
  <2>8. LoginsAreOurs'
    BY <1>4, <1>t, <2>1, <2>2, <2>5 DEF StartAuth, LoginsAreOurs
  <2>9. AnswersAreAwaited'
    BY <1>4, <2>5, AccountAssumption DEF StartAuth, Reach, AnswersAreAwaited
  <2>10. QED
    BY <2>6, <2>7, <2>8, <2>9
<1>5. CASE Proceed
  <2>1. /\ task.phase \in {"greeting", "authing"} /\ ~waiter /\ waiter' = waiter
        /\ pendingAuth = Nil /\ pendingAuth' = pendingAuth
    BY <1>5 DEF Proceed, AnswersAreAwaited, inside
  <2>2. PICK stage \in {"welcomed", "restoring"} : Reach(stage)
    BY <1>5 DEF Proceed
  <2>3. waiter' \in BOOLEAN
    BY <2>1 DEF AccountTypeOK
  <2>4. QED
    BY <1>5, <1>n, <2>1, <2>2, <2>3 DEF Proceed, remote, inside
<1>6. CASE Restore
  <2>1. Healthy
    BY <1>6 DEF Restore, LoginsAreOurs, Healthy
  <2>2. /\ task' \in TaskStates /\ task'.kind # "none" /\ task'.phase = "finishing"
        /\ task'.kind = task.kind /\ task # NoTask /\ task' # NoTask
    BY <1>6, <1>r DEF Restore
  <2>3. conn' = conn /\ current' = current /\ authenticated' = authenticated
    BY <1>6 DEF Restore, remote, inside
  <2>4. Opened' = Opened /\ Newest' = Newest
    BY <2>3 DEF Opened, Newest
  <2>5. AccountTypeOK' /\ SocketsInOrder'
    BY <1>6, <2>2, <2>3, <2>4 DEF Restore, manager, inside, AccountTypeOK, SocketsInOrder
  <2>6. TasksHaveOwners' /\ Handled' /\ LoginsAreOurs'
    BY <1>6, <2>1, <2>2, <2>3 DEF Restore, manager, TasksHaveOwners, Handled, LoginsAreOurs, Healthy
  <2>7. AnswersAreAwaited'
    BY <1>6, <2>2, AccountAssumption DEF Restore, Reach, inside, AnswersAreAwaited
  <2>8. QED
    BY <2>5, <2>6, <2>7
\* A new attempt keeps the account, or begins with a new one and no socket.
<1>7. CASE Retry
  <2>1. task.phase # "idle"
    BY <1>7 DEF Retry, AttemptIsOver
  <2>a. task.left - 1 \in Nat
    BY <1>7, <1>t DEF Retry, TaskStates
  <2>2. /\ task' \in TaskStates /\ task'.kind # "none" /\ task'.phase = "delayed"
        /\ task'.kind = task.kind /\ task # NoTask /\ task' # NoTask
    <3> DEFINE l == task.left - 1
    <3>1. task' = [task EXCEPT !.phase = "delayed", !.left = l]
      BY <1>7, <1>t DEF Retry, TaskStates
    <3>2. l \in Nat
      BY <2>a
    <3> HIDE DEF l
    <3>3. /\ task' \in TaskStates /\ task'.phase = "delayed" /\ task'.kind = task.kind
      BY <1>t, <3>1, <3>2 DEF TaskStates
    <3>4. task.kind # "none" /\ NoTask.kind = "none"
      BY <1>t, <2>1 DEF NoTask
    <3>5. QED
      BY <3>3, <3>4
  <2>3. conn' \in [Sockets -> Dials] /\ \A k \in Sockets : conn[k] = "unopened" <=> conn'[k] = "unopened"
    BY <1>7, <1>o, <1>t DEF Retry, FreshAccount, TakeBack, Dials
  <2>4. Opened' = Opened /\ Newest' = Newest
    BY <1>t, <2>3, SameSockets
  <2>5. \/ current' = Nil /\ authenticated' = FALSE
        \/ current' = current /\ conn' = conn /\ authenticated' = authenticated
    BY <1>7 DEF Retry, FreshAccount, TakeBack
  <2>6. AccountTypeOK' /\ SocketsInOrder'
    <3>1. waiter' \in BOOLEAN
      BY <1>7 DEF Retry, FreshAccount, TakeBack, AccountTypeOK
    <3>2. QED
      BY <1>7, <2>2, <2>3, <2>4, <2>5, <3>1 DEF Retry, manager, AccountTypeOK, SocketsInOrder
  <2>7. TasksHaveOwners' /\ Handled' /\ LoginsAreOurs'
    BY <1>7, <2>2, <2>5 DEF Retry, manager, TasksHaveOwners, Handled, LoginsAreOurs
  <2>8. AnswersAreAwaited'
    BY <1>7, <2>2, AccountAssumption DEF Retry, FreshAccount, TakeBack, AnswersAreAwaited
  <2>9. QED
    BY <2>6, <2>7, <2>8
<1>8. CASE GiveUp
  <2>1. task.kind \in {"first", "again", "loop"} /\ task.phase # "idle" /\ task' = NoTask
    BY <1>8, <1>t DEF GiveUp, AttemptIsOver, TaskStates, NoTask
  <2>2. /\ conn' = conn /\ current' = current /\ authenticated' = authenticated
        /\ ownLoop' = ownLoop /\ wired' = wired /\ missed' = missed /\ reconnecting' = FALSE
    BY <1>8 DEF GiveUp, TakeBack
  <2>3. Opened' = Opened /\ Newest' = Newest
    BY <2>2 DEF Opened, Newest
  <2>4. NoTask \in TaskStates /\ NoTask.kind = "none" /\ NoTask.phase = "idle"
    BY DEF NoTask, TaskStates
  <2>5. AccountTypeOK' /\ SocketsInOrder'
    BY <1>8, <2>1, <2>2, <2>3, <2>4 DEF GiveUp, TakeBack, AccountTypeOK, SocketsInOrder
  <2>6. LoginsAreOurs' /\ AnswersAreAwaited'
    <3>1. ~waiter' /\ pendingAuth' = Nil /\ notice' = Nil
      BY <1>8 DEF GiveUp, TakeBack, AnswersAreAwaited
    <3>2. QED
      BY <2>1, <2>2, <2>4, <3>1, AccountAssumption DEF LoginsAreOurs, AnswersAreAwaited
  <2>7. TasksHaveOwners' /\ Handled'
    <3>1. CASE task.kind = "first"
      BY <1>8, <2>1, <2>2, <2>4, <3>1 DEF GiveUp, TasksHaveOwners, Handled
    <3>2. CASE task.kind = "again"
      BY <1>8, <2>1, <2>2, <2>4, <3>2 DEF GiveUp, TasksHaveOwners, Handled
    <3>3. CASE task.kind = "loop"
      BY <1>8, <2>1, <2>2, <2>4, <3>3 DEF GiveUp, TasksHaveOwners, Handled
    <3>4. QED
      BY <2>1, <3>1, <3>2, <3>3
  <2>8. QED
    BY <2>5, <2>6, <2>7
<1>9. CASE Finish
  <2>1. /\ task.kind \in {"first", "again", "loop"} /\ task.phase = "finishing" /\ task' = NoTask
        /\ Healthy \/ missed \/ ~registered
    BY <1>9, <1>t DEF Finish, TaskStates, NoTask, Handled
  <2>2. /\ conn' = conn /\ current' = current /\ authenticated' = authenticated /\ registered' = registered
        /\ ownLoop' = ownLoop /\ wired' = (wired \/ task.kind = "first") /\ missed' = missed
        /\ reconnecting' = FALSE
    BY <1>9 DEF Finish, remote, inside
  <2>3. Opened' = Opened /\ Newest' = Newest /\ Healthy' = Healthy
    BY <2>2 DEF Opened, Newest, Healthy
  <2>4. NoTask \in TaskStates /\ NoTask.kind = "none" /\ NoTask.phase = "idle"
    BY DEF NoTask, TaskStates
  <2>5. AccountTypeOK' /\ SocketsInOrder'
    <3>1. tails' \subseteq {"ok", "failed"} /\ waiter' = waiter
      BY <1>9, <2>1 DEF Finish, inside, AccountTypeOK
    <3>2. QED
      BY <2>1, <2>2, <2>3, <2>4, <3>1 DEF AccountTypeOK, SocketsInOrder
  <2>6. LoginsAreOurs' /\ AnswersAreAwaited'
    BY <1>9, <2>1, <2>2, <2>3, <2>4, AccountAssumption
       DEF Finish, inside, LoginsAreOurs, AnswersAreAwaited
  <2>7. TasksHaveOwners' /\ Handled'
    <3>1. CASE task.kind = "first"
      <4>1. report' = "connected" /\ tails' = tails
        BY <1>9, <3>1 DEF Finish
      <4>2. ~ownLoop
        BY <3>1 DEF TasksHaveOwners
      <4>3. QED
        BY <2>1, <2>2, <2>3, <2>4, <3>1, <4>1, <4>2 DEF TasksHaveOwners, Handled
    <3>2. CASE task.kind = "again"
      <4>1. report' = report /\ tails' = tails \cup {"ok"}
        BY <1>9, <3>2 DEF Finish
      <4>2. ~ownLoop
        BY <3>2 DEF TasksHaveOwners
      <4>3. QED
        BY <2>1, <2>2, <2>3, <2>4, <3>2, <4>1, <4>2 DEF TasksHaveOwners, Handled
    <3>3. CASE task.kind = "loop"
      BY <1>9, <2>1, <2>2, <2>3, <2>4, <3>3 DEF Finish, TasksHaveOwners, Handled
    <3>4. QED
      BY <2>1, <3>1, <3>2, <3>3
  <2>8. QED
    BY <2>5, <2>6, <2>7
<1>10. QED
  BY <1>1, <1>2, <1>3, <1>4, <1>5, <1>6, <1>7, <1>8, <1>9 DEF TaskStep

\* A step that leaves the task and the sockets as they are, and no loss unreported.
LEMMA AccountStays ==
  ASSUME AccountInv,
         task' = task, conn' = conn, current' = current, authenticated' = authenticated,
         waiter' = waiter, pendingAuth' = pendingAuth, notice' = notice, missed' = missed,
         ownLoop' = ownLoop, wired' = wired, reconnecting' = reconnecting, registered' \in BOOLEAN,
         tails' \subseteq tails, registered' => registered,
         "failed" \in tails \ tails' => ~registered',
         report' = report \/ (tails # {} /\ (report' = "disconnected" => ~registered'))
  PROVE  AccountInv'
<1>1. Opened' = Opened /\ Newest' = Newest
  BY DEF Opened, Newest
<1>2. AccountTypeOK' /\ SocketsInOrder'
  BY <1>1 DEF AccountInv, AccountTypeOK, SocketsInOrder
<1>3. TasksHaveOwners'
  BY DEF AccountInv, TasksHaveOwners
<1>4. LoginsAreOurs' /\ AnswersAreAwaited'
  BY <1>1 DEF AccountInv, LoginsAreOurs, AnswersAreAwaited
<1>5. Handled'
  BY DEF AccountInv, TasksHaveOwners, Handled, Healthy
<1>6. QED
  BY <1>2, <1>3, <1>4, <1>5 DEF AccountInv

\* The answer of a server on any socket that is open.
LEMMA AnswerSteps == AccountInv /\ Routes => AccountInv'
<1> SUFFICES ASSUME AccountInv, NEW k \in Sockets, Greets(k) \/ LogsIn(k) \/ RefusesLogin(k),
                    UNCHANGED <<ownLoop, reported, closes, task, manager>>
             PROVE  AccountInv'
  BY DEF Routes
<1> USE DEF AccountInv
<1>t. conn \in [Sockets -> Dials] /\ current \in Opened \cup {Nil} /\ authenticated \in BOOLEAN
  BY DEF AccountTypeOK
<1>o. Opened \subseteq Sockets
  BY DEF Opened
<1>1. /\ conn[k] \in {"silent", "asked"} /\ current' = current
      /\ \E to \in {"greeted", "loggedIn"} : conn' = [conn EXCEPT ![k] = to]
      /\ conn'[k] = "loggedIn" => authenticated'
      /\ conn'[k] = "loggedIn" => conn[k] = "asked"
      /\ authenticated => authenticated'
      /\ authenticated' \in BOOLEAN
  BY <1>t DEF Greets, LogsIn, RefusesLogin
<1>2. conn' \in [Sockets -> Dials] /\ \A j \in Sockets : conn[j] = "unopened" <=> conn'[j] = "unopened"
  BY <1>t, <1>1 DEF Dials
<1>3. Opened' = Opened /\ Newest' = Newest
  BY <1>t, <1>2, SameSockets
<1>4. /\ ~waiter' \/ waiter' = waiter
      /\ pendingAuth' = pendingAuth \/ pendingAuth' = Nil
      /\ notice' = "ok" => \/ notice = "ok"
                           \/ waiter /\ ~waiter' /\ pendingAuth' = pendingAuth
                           \/ pendingAuth # Nil /\ pendingAuth' = Nil /\ waiter' = waiter
      /\ waiter' \in BOOLEAN
  BY DEF Greets, LogsIn, RefusesLogin, AccountTypeOK
<1>5. AccountTypeOK' /\ SocketsInOrder'
  BY <1>1, <1>2, <1>3, <1>4 DEF AccountTypeOK, SocketsInOrder, manager
<1>6. TasksHaveOwners'
  BY DEF TasksHaveOwners, manager
<1>7. LoginsAreOurs'
  <2>1. \A j \in Sockets : conn'[j] = "loggedIn" => conn[j] = "loggedIn" \/ authenticated'
    BY <1>t, <1>1
  <2>2. \A j \in Sockets : conn'[j] \in {"asked", "loggedIn"} => conn[j] \in {"asked", "loggedIn"}
    BY <1>t, <1>1
  <2>3. QED
    BY <1>1, <1>o, <1>t, <1>3, <2>1, <2>2 DEF LoginsAreOurs, manager
<1>8. AnswersAreAwaited'
  BY <1>4 DEF AnswersAreAwaited
<1>9. Healthy => Healthy'
  BY <1>t, <1>o, <1>1 DEF Healthy
<1>10. Handled'
  BY <1>9 DEF Handled, manager
<1>11. QED
  BY <1>5, <1>6, <1>7, <1>8, <1>10

\* The close of any socket.
LEMMA CloseSteps == ASSUME AccountInv, NEW k \in Sockets, Closes(k) PROVE AccountInv'
<1> USE DEF AccountInv
<1>t. /\ conn \in [Sockets -> Dials] /\ task \in TaskStates /\ missed \in BOOLEAN
      /\ task = NoTask \/ (task.kind # "none" /\ task.phase # "idle")
  BY DEF AccountTypeOK
<1>1. /\ conn' \in [Sockets -> Dials] /\ \A j \in Sockets : conn[j] = "unopened" <=> conn'[j] = "unopened"
      /\ \A j \in Sockets : conn'[j] \in {"asked", "loggedIn"} => conn[j] \in {"asked", "loggedIn"}
  <2>1. PICK last \in {conn[k], "ended"} : conn' = [conn EXCEPT ![k] = last]
    BY DEF Closes
  <2>2. QED
    BY <1>t, <2>1 DEF Closes, Dials
<1>2. Opened' = Opened /\ Newest' = Newest
  BY <1>t, <1>1, SameSockets
<1>3. /\ current' = Nil /\ waiter' = FALSE /\ authenticated' = FALSE /\ pendingAuth' = Nil
      /\ ownLoop' = ownLoop /\ wired' = wired /\ tails' = tails
  BY DEF Closes, Reset
<1>4. SocketsInOrder'
  BY <1>2 DEF SocketsInOrder
\* A new task begins, or the one there is is told.
<1>n. ASSUME NEW kind \in {"again", "loop"}, StartTask(kind), registered' = registered,
             report' = report, missed' = missed, kind = "loop" <=> ownLoop, ownLoop \/ wired
      PROVE  AccountInv'
  <2>1. /\ task' \in TaskStates /\ task'.kind = kind /\ task'.phase = "delayed"
        /\ notice' = Nil /\ reconnecting' = TRUE
    BY <1>n, AccountAssumption DEF StartTask, Task, TaskStates
  <2>2. task' # NoTask
    BY <1>n, <2>1 DEF NoTask
  <2>3. AccountTypeOK'
    BY <1>n, <1>1, <1>2, <1>3, <2>1, <2>2 DEF AccountTypeOK
  <2>4. TasksHaveOwners' /\ LoginsAreOurs' /\ AnswersAreAwaited' /\ Handled'
    BY <1>n, <1>1, <1>2, <1>3, <2>1, <2>2, AccountAssumption
       DEF TasksHaveOwners, LoginsAreOurs, AnswersAreAwaited, Handled
  <2>5. QED
    BY <1>4, <2>3, <2>4
<1>k. ASSUME TaskIsTold, reconnecting' = reconnecting, registered' \in BOOLEAN, registered' => registered,
             missed' \in BOOLEAN, missed => missed',
             report' = report \/ (report' = "disconnected" /\ (ownLoop \/ ~registered')),
             task.phase = "finishing" => missed' \/ ~registered',
             task = NoTask => ~registered' \/ (ownLoop /\ report' = "disconnected")
      PROVE  AccountInv'
  <2>1. task' = task /\ (notice' = "ok" => notice = "ok")
    BY <1>k DEF TaskIsTold
  <2>2. AccountTypeOK'
    BY <1>k, <1>1, <1>2, <1>3, <2>1 DEF AccountTypeOK
  <2>3. TasksHaveOwners' /\ Handled'
    BY <1>k, <1>3, <2>1 DEF TasksHaveOwners, Handled
  <2>4. LoginsAreOurs'
    <3>1. Opened \subseteq Sockets
      BY DEF Opened
    <3>2. QED
      BY <1>1, <1>2, <1>3, <2>1, <3>1 DEF LoginsAreOurs
  <2>5. AnswersAreAwaited'
    BY <1>3, <2>1 DEF AnswersAreAwaited
  <2>6. QED
    BY <1>4, <2>2, <2>3, <2>4, <2>5
<1>5. PICK terminal \in BOOLEAN : IF ownLoop THEN LoopReacts(terminal) ELSE ClientReacts(terminal)
  BY DEF Closes
<1>6. CASE ownLoop
  <2>1. CASE ~terminal /\ ~reconnecting
    BY <1>n, <1>5, <1>6, <2>1 DEF LoopReacts
  <2>2. CASE terminal \/ reconnecting
    <3>1. /\ report' = "disconnected" /\ TaskIsTold /\ missed' = (missed \/ task.phase = "finishing")
          /\ registered' = registered /\ reconnecting' = reconnecting
      BY <1>5, <1>6, <2>2 DEF LoopReacts
    <3>2. missed' \in BOOLEAN /\ registered' \in BOOLEAN
      BY <3>1, <1>t DEF AccountTypeOK
    <3>3. QED
      BY <1>k, <1>6, <3>1, <3>2
  <2>3. QED
    BY <2>1, <2>2 DEF AccountTypeOK
<1>7. CASE ~ownLoop
  <2>1. CASE wired /\ registered /\ terminal
    <3>1. /\ registered' = FALSE /\ report' = "disconnected" /\ TaskIsTold
          /\ reconnecting' = reconnecting /\ missed' = missed
      BY <1>5, <1>7, <2>1 DEF ClientReacts
    <3>2. QED
      BY <1>k, <1>t, <3>1
  <2>2. CASE wired /\ registered /\ ~terminal /\ ~reconnecting
    BY <1>n, <1>5, <1>7, <2>2 DEF ClientReacts
  <2>3. CASE ~(wired /\ registered) \/ (~terminal /\ reconnecting)
    <3>1. /\ missed' = (missed \/ task.phase = "finishing") /\ TaskIsTold
          /\ registered' = registered /\ reconnecting' = reconnecting /\ report' = report
      BY <1>5, <1>7, <2>3 DEF ClientReacts
    <3>2. missed' \in BOOLEAN /\ registered' \in BOOLEAN
      BY <3>1, <1>t DEF AccountTypeOK
    <3>3. task = NoTask => ~registered
      <4>1. NoTask.kind # "first"
        BY DEF NoTask
      <4>2. QED
        BY <1>7, <2>3, <4>1 DEF TasksHaveOwners
    <3>4. QED
      BY <1>k, <3>1, <3>2, <3>3
  <2>4. QED
    BY <2>1, <2>2, <2>3 DEF AccountTypeOK
<1>8. QED
  BY <1>6, <1>7 DEF AccountTypeOK

LEMMA AccountInvStep == AccountInv /\ [AccountNext]_accountVars => AccountInv'
<1> SUFFICES ASSUME AccountInv, [AccountNext]_accountVars
             PROVE  AccountInv'
  OBVIOUS
<1>1. CASE ActOnResult
  <2>1. PICK result \in tails :
          /\ tails' = tails \ {result}
          /\ registered' = (registered /\ result = "ok")
          /\ report' = IF result = "ok" THEN "reconnected" ELSE "disconnected"
          /\ UNCHANGED <<ownLoop, remote, inside, task, notice, wired, reconnecting, missed>>
    BY <1>1 DEF ActOnResult
  <2>2. result \in {"ok", "failed"} /\ registered \in BOOLEAN
    BY DEF AccountInv, AccountTypeOK
  <2>3. QED
    BY <2>1, <2>2, AccountStays DEF remote, inside
<1>2. CASE Remove
  BY <1>2, AccountStays DEF Remove, inside
<1>3. CASE UNCHANGED accountVars
  <2>1. /\ task' = task /\ conn' = conn /\ current' = current /\ authenticated' = authenticated
        /\ waiter' = waiter /\ pendingAuth' = pendingAuth /\ notice' = notice /\ missed' = missed
        /\ ownLoop' = ownLoop /\ wired' = wired /\ reconnecting' = reconnecting
        /\ registered' = registered /\ tails' = tails /\ report' = report
    BY <1>3 DEF accountVars, remote, inside, manager
  <2>2. /\ registered' \in BOOLEAN /\ tails' \subseteq tails /\ (registered' => registered)
        /\ ("failed" \in tails \ tails' => ~registered')
    BY <2>1 DEF AccountInv, AccountTypeOK
  <2>3. QED
    BY <2>1, <2>2, AccountStays
<1>4. QED
  BY <1>1, <1>2, <1>3, TaskSteps, AnswerSteps, CloseSteps DEF AccountNext

\* An account that nobody connects and that was not reported lost is logged in on the
\* socket it sends to, however many attempts, sockets and closes there are.
THEOREM AccountsAreHealthyOrHandled == AccountSpec => []HealthyOrHandled
<1>1. AccountInv => HealthyOrHandled
  BY DEF AccountInv, Handled, Healthy, HealthyOrHandled, GivenUp
<1>2. QED
  BY <1>1, AccountInvInit, AccountInvStep, PTL DEF AccountSpec
=============================================================================
