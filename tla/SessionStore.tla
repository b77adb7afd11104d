---------------------------- MODULE SessionStore ----------------------------
(***************************************************************************)
(* The session store on disk (prayer-sdk, service/persistence.rs).         *)
(*                                                                         *)
(* Every operation that changes a session saves all of them: it collects   *)
(* their records one session lock after the other, takes a lock file,      *)
(* writes a temporary file and renames it.  A lock file that is old is     *)
(* removed by whoever sees it.  The process may crash between any two      *)
(* steps and starts from what the file holds.                              *)
(***************************************************************************)
EXTENDS Naturals, FiniteSets

CONSTANTS
  Nothing,       \* no such file
  Half,          \* the content of a file that is being written
  Sessions,
  Savers,        \* the operations that may save at one time
  StoreChanges,  \* bound: changes of sessions
  StoreFaults    \* bound: crashes, failing reads and writes, invalid checkpoints

\* What a file of the store holds: the version of each session, 0 if it has no record.
StoreRecords == [Sessions -> Nat]

ASSUME StoreAssumption ==
  /\ Nothing \notin {"fresh", "old", Half}
  /\ Nothing \notin StoreRecords /\ Half \notin StoreRecords

VARIABLES
  memory,     \* the version of each session; 0 is a session that is not there
  unsound,    \* sessions whose engine has no valid checkpoint to give
  saver,      \* what each operation does
  lockFile, tmpFile, storeFile,
  service,    \* "up", "stopping", "down" or "crashed"
  storeFaults,
  acked,      \* history: versions that were there when a save that was done began
  overlapped, \* history: a save began while another was under way
  raced,      \* history: a lock file was removed that was not old
  unread      \* history: the store could not be read

storeVars == <<memory, unsound, saver, lockFile, tmpFile, storeFile, service, storeFaults, acked,
               overlapped, raced, unread>>
disk == <<lockFile, tmpFile, storeFile>>

Empty   == [s \in Sessions |-> 0]
Idle    == [phase |-> "idle", todo |-> {}, records |-> Empty, due |-> Empty]
Holding == {"creating", "writing", "renaming", "unlocking"}

StoreInit ==
  /\ memory = [s \in Sessions |-> 1] /\ unsound = {}
  /\ saver = [p \in Savers |-> Idle]
  /\ lockFile = Nothing /\ tmpFile = Nothing /\ storeFile = Empty
  /\ service = "up" /\ storeFaults = 0
  /\ acked = Empty /\ overlapped = FALSE /\ raced = FALSE /\ unread = FALSE

Moves(p, from, to) ==
  /\ saver[p].phase = from
  /\ saver' = [saver EXCEPT ![p].phase = to]
StoreFault == storeFaults < StoreFaults /\ storeFaults' = storeFaults + 1
LaterOf(a, b) == IF a > b THEN a ELSE b
Present == {s \in Sessions : memory[s] > 0}

\* persist_sessions: the map of sessions is read once, the records are then
\* collected session by session.
StartsSave(p) ==
  /\ saver[p] = Idle
  /\ saver' = [saver EXCEPT ![p] = [phase |-> "collecting", todo |-> Present, records |-> Empty,
                                    due |-> memory']]
  /\ overlapped' = (overlapped \/ \E q \in Savers : saver[q].phase # "idle")

\* An operation of a client or of a runner changes a session and saves.
Operate(p, s) ==
  /\ service \in {"up", "stopping"} /\ memory[s] > 0
  /\ memory[s] < StoreChanges
  /\ memory' = [memory EXCEPT ![s] = @ + 1] /\ StartsSave(p)
  /\ UNCHANGED <<unsound, disk, service, storeFaults, acked, raced, unread>>

GoesUnsound(s) ==
  /\ service = "up" /\ StoreFault /\ s \in Present /\ unsound' = unsound \cup {s}
  /\ UNCHANGED <<memory, saver, disk, service, acked, overlapped, raced, unread>>

\* Mutant: the records are those of the last save.
CollectLate(p, s) ==
  /\ saver[p].phase = "collecting" /\ s \in saver[p].todo
  /\ saver' = [saver EXCEPT ![p].todo = @ \ {s},
                            ![p].records[s] = IF s \in unsound THEN 0 ELSE memory[s] - 1]
  /\ UNCHANGED <<memory, unsound, disk, service, storeFaults, acked, overlapped, raced, unread>>

\* A session without a valid checkpoint is skipped.
Collect(p, s) ==
  /\ saver[p].phase = "collecting" /\ s \in saver[p].todo
  /\ saver' = [saver EXCEPT ![p].todo = @ \ {s},
                            ![p].records[s] = IF s \in unsound THEN 0 ELSE memory[s]]
  /\ UNCHANGED <<memory, unsound, disk, service, storeFaults, acked, overlapped, raced, unread>>

Collected(p) ==
  /\ saver[p].todo = {} /\ Moves(p, "collecting", "locking")
  /\ UNCHANGED <<memory, unsound, disk, service, storeFaults, acked, overlapped, raced, unread>>

-----------------------------------------------------------------------------
(* acquire_file_lock. *)

TakeLock(p) ==
  /\ lockFile = Nothing /\ Moves(p, "locking", "creating") /\ lockFile' = "fresh"
  /\ UNCHANGED <<memory, unsound, tmpFile, storeFile, service, storeFaults, acked, overlapped,
                 raced, unread>>

\* Its age is looked at, then it is removed, whoever has it by then.
SeeOldLock(p) ==
  /\ lockFile = "old" /\ Moves(p, "locking", "breaking")
  /\ UNCHANGED <<memory, unsound, disk, service, storeFaults, acked, overlapped, raced, unread>>

BreakLock(p) ==
  /\ Moves(p, "breaking", "locking")
  /\ lockFile' = Nothing /\ raced' = (raced \/ lockFile = "fresh")
  /\ UNCHANGED <<memory, unsound, tmpFile, storeFile, service, storeFaults, acked, overlapped, unread>>

LockTimesOut(p) ==
  /\ lockFile = "fresh" /\ saver[p].phase = "locking"
  /\ saver' = [saver EXCEPT ![p] = Idle]
  /\ UNCHANGED <<memory, unsound, disk, service, storeFaults, acked, overlapped, raced, unread>>

\* Two minutes: nobody who is alive holds the lock for that long.
LockAges ==
  /\ lockFile = "fresh" /\ \A p \in Savers : saver[p].phase \notin Holding
  /\ lockFile' = "old"
  /\ UNCHANGED <<memory, unsound, saver, tmpFile, storeFile, service, storeFaults, acked,
                 overlapped, raced, unread>>

-----------------------------------------------------------------------------
(* save_runtime_sessions, under the lock. *)

CreateTmp(p) ==
  /\ Moves(p, "creating", "writing") /\ tmpFile' = Half
  /\ UNCHANGED <<memory, unsound, lockFile, storeFile, service, storeFaults, acked, overlapped,
                 raced, unread>>

\* With two writers of the one temporary file nothing is certain of it, or of the
\* store it was renamed to.
WriteTmp(p) ==
  /\ Moves(p, "writing", "renaming")
  /\ IF tmpFile = Nothing THEN storeFile' = Half /\ UNCHANGED tmpFile
     ELSE /\ tmpFile' = IF \E q \in Savers \ {p} : saver[q].phase \in {"writing", "renaming"}
                        THEN Half ELSE saver[p].records
          /\ UNCHANGED storeFile
  /\ UNCHANGED <<memory, unsound, lockFile, service, storeFaults, acked, overlapped, raced, unread>>

WriteFails(p) ==
  /\ StoreFault /\ saver[p].phase \in {"creating", "writing"}
  /\ saver' = [saver EXCEPT ![p].phase = "unlocking"]
  /\ UNCHANGED <<memory, unsound, disk, service, acked, overlapped, raced, unread>>

\* A temporary file that is gone is an error.
Rename(p) ==
  /\ Moves(p, "renaming", "unlocking")
  /\ IF tmpFile = Nothing THEN UNCHANGED <<tmpFile, storeFile, acked>>
     ELSE /\ storeFile' = tmpFile /\ tmpFile' = Nothing
          /\ acked' = [s \in Sessions |-> IF saver[p].records[s] = 0 THEN 0
                                         ELSE LaterOf(acked[s], saver[p].due[s])]
  /\ UNCHANGED <<memory, unsound, lockFile, service, storeFaults, overlapped, raced, unread>>

\* FileLockGuard::drop removes whatever lock file there is.
Unlock(p) ==
  /\ saver[p].phase = "unlocking" /\ saver' = [saver EXCEPT ![p] = Idle]
  /\ lockFile' = Nothing
  /\ raced' = (raced \/ \E q \in Savers \ {p} : saver[q].phase \in Holding)
  /\ UNCHANGED <<memory, unsound, tmpFile, storeFile, service, storeFaults, acked, overlapped, unread>>

-----------------------------------------------------------------------------
(* The process. *)

Crash ==
  /\ service \in {"up", "stopping"} /\ StoreFault
  /\ service' = "crashed" /\ saver' = [p \in Savers |-> Idle]
  /\ memory' = Empty /\ unsound' = {}
  /\ UNCHANGED <<disk, acked, overlapped, raced, unread>>

\* Records that cannot be read are no records; whatever was restored is saved when
\* the accounts are reconciled, and accounts that had no record get a session.
Restart ==
  /\ service \in {"crashed", "down"} /\ service' = "up"
  /\ \E fails \in {storeFile = Half, TRUE} :
       LET records == IF fails THEN Empty ELSE storeFile
       IN /\ memory' = [s \in Sessions |-> IF records[s] > 0 THEN records[s] ELSE 1]
          /\ unread' = (unread \/ fails)
          /\ IF fails /\ storeFile # Half THEN StoreFault ELSE UNCHANGED storeFaults
  /\ \E p \in Savers :
       saver' = [saver EXCEPT ![p] = [phase |-> "collecting", todo |-> Sessions, records |-> Empty,
                                    due |-> memory']]
  /\ unsound' = {}
  /\ UNCHANGED <<disk, acked, overlapped, raced>>

\* PrayerSdk::shutdown saves, then stops the workers; a save that is past its last
\* await ends first.
BeginShutdown(p) ==
  /\ service = "up" /\ service' = "stopping"
  /\ UNCHANGED memory /\ StartsSave(p)
  /\ UNCHANGED <<unsound, disk, storeFaults, acked, raced, unread>>

EndShutdown ==
  /\ service = "stopping" /\ service' = "down"
  /\ \A p \in Savers : saver[p].phase \in {"idle", "collecting"}
  /\ saver' = [p \in Savers |-> Idle]
  /\ UNCHANGED <<memory, unsound, disk, storeFaults, acked, overlapped, raced, unread>>

Saves(p) ==
  \/ (\E s \in Sessions : Collect(p, s)) \/ Collected(p)
  \/ TakeLock(p) \/ SeeOldLock(p) \/ BreakLock(p) \/ LockTimesOut(p)
  \/ CreateTmp(p) \/ WriteTmp(p) \/ WriteFails(p) \/ Rename(p) \/ Unlock(p)

StoreNext ==
  \/ \E p \in Savers : (\E s \in Sessions : Operate(p, s)) \/ Saves(p) \/ BeginShutdown(p)
  \/ (\E s \in Sessions : GoesUnsound(s))
  \/ LockAges \/ Crash \/ Restart \/ EndShutdown

StoreSpec == StoreInit /\ [][StoreNext]_storeVars

-----------------------------------------------------------------------------
(* Properties. *)

\* The store is written beside the file and renamed: whatever crashes or fails, the file
\* is a complete store, a saved version is not lost again by later saves, failures,
\* crashes and restarts, and what runs is never older than what is saved - unless
\* somebody took a lock file for old that another had just made; versions also when
\* saves overlapped or the store could not be read.  (A save drops the session that has
\* no checkpoint to give: that is no version saved.)
SavedStaysSaved ==
  ~raced =>
    /\ storeFile # Half
    /\ ~overlapped /\ ~unread =>
         \A s \in Sessions :
           /\ acked[s] <= storeFile[s]
           /\ service \in {"up", "stopping"} => storeFile[s] <= memory[s]
=============================================================================
