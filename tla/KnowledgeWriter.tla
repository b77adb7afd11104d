--------------------------- MODULE KnowledgeWriter ---------------------------
(***************************************************************************)
(* How the shared world knowledge reaches its file (prayer-sdk,            *)
(* KnowledgePersistence).  Whoever changes the knowledge raises its        *)
(* version under the write lock, takes a snapshot outside of it, leaves it *)
(* in a one-place mailbox unless a newer one is there, and wakes the       *)
(* writer thread through a channel that holds one wake-up.                 *)
(*                                                                         *)
(* A knowledge state is its version.                                       *)
(***************************************************************************)
EXTENDS Naturals

CONSTANTS
  NoSnapshot,
  Publishers,         \* the operations that may publish at one time
  MaxKnowledge,       \* bound: versions
  KnowledgeFaults     \* bound: crashes, failing reads and writes

ASSUME KnowledgeAssumption == NoSnapshot \notin Nat

VARIABLES
  knowledge,     \* knowledge_version in memory
  publisher,     \* what each operation holds, and what is left for it to do
  mailbox,       \* pending: the snapshot for the writer
  woken,         \* the channel holds a wake-up
  writer,        \* the snapshot being written
  attempted,     \* latest_attempted_version
  written,       \* the version in the file
  failedWrites,  \* history: versions whose write failed since the start
  forgotten,     \* history: the file could not be read
  knowledgeFaults

knowledgeVars == <<knowledge, publisher, mailbox, woken, writer, attempted, written, failedWrites,
                   forgotten, knowledgeFaults>>

Versions == 0..MaxKnowledge
Resting  == [phase |-> "resting", snapshot |-> NoSnapshot]

KnowledgeInit ==
  /\ knowledge = 0 /\ publisher = [p \in Publishers |-> Resting]
  /\ mailbox = NoSnapshot /\ woken = FALSE /\ writer = NoSnapshot
  /\ attempted = 0 /\ written = 0 /\ failedWrites = {} /\ forgotten = FALSE /\ knowledgeFaults = 0

KnowledgeFault == knowledgeFaults < KnowledgeFaults /\ knowledgeFaults' = knowledgeFaults + 1

\* A merge that changes something.
Merge(p) ==
  /\ publisher[p] = Resting /\ knowledge < MaxKnowledge
  /\ knowledge' = knowledge + 1
  /\ publisher' = [publisher EXCEPT ![p].phase = "changed"]
  /\ UNCHANGED <<mailbox, woken, writer, attempted, written, failedWrites, forgotten, knowledgeFaults>>

\* The snapshot is taken after the write lock is gone: it may be newer than the change.
TakeSnapshot(p) ==
  /\ publisher[p].phase = "changed"
  /\ publisher' = [publisher EXCEPT ![p] = [phase |-> "publishing", snapshot |-> knowledge]]
  /\ UNCHANGED <<knowledge, mailbox, woken, writer, attempted, written, failedWrites, forgotten,
                 knowledgeFaults>>

\* publish_shared: replace_pending_knowledge_snapshot refuses what is not newer.
Publish(p) ==
  /\ publisher[p].phase = "publishing"
  /\ IF mailbox # NoSnapshot /\ mailbox >= publisher[p].snapshot
     THEN publisher' = [publisher EXCEPT ![p] = Resting] /\ UNCHANGED mailbox
     ELSE /\ mailbox' = publisher[p].snapshot
          /\ publisher' = [publisher EXCEPT ![p].phase = "waking"]
  /\ UNCHANGED <<knowledge, woken, writer, attempted, written, failedWrites, forgotten, knowledgeFaults>>

\* Mutant: the wake-up is dropped while the writer is busy.
WakeIdleWriter(p) ==
  /\ publisher[p].phase = "waking"
  /\ publisher' = [publisher EXCEPT ![p] = Resting]
  /\ woken' = (woken \/ writer = NoSnapshot)
  /\ UNCHANGED <<knowledge, mailbox, writer, attempted, written, failedWrites, forgotten, knowledgeFaults>>

\* try_send: a full channel is as good.
Wake(p) ==
  /\ publisher[p].phase = "waking"
  /\ publisher' = [publisher EXCEPT ![p] = Resting] /\ woken' = TRUE
  /\ UNCHANGED <<knowledge, mailbox, writer, attempted, written, failedWrites, forgotten, knowledgeFaults>>

\* Mutant: what was attempted is not remembered.
WriterTakesAny ==
  /\ woken /\ writer = NoSnapshot /\ woken' = FALSE /\ mailbox' = NoSnapshot
  /\ IF mailbox # NoSnapshot
     THEN writer' = mailbox /\ attempted' = mailbox ELSE UNCHANGED <<writer, attempted>>
  /\ UNCHANGED <<knowledge, publisher, written, failedWrites, forgotten, knowledgeFaults>>

\* run_knowledge_persistence_worker.
WriterTakes ==
  /\ woken /\ writer = NoSnapshot /\ woken' = FALSE /\ mailbox' = NoSnapshot
  /\ IF mailbox # NoSnapshot /\ mailbox > attempted
     THEN writer' = mailbox /\ attempted' = mailbox ELSE UNCHANGED <<writer, attempted>>
  /\ UNCHANGED <<knowledge, publisher, written, failedWrites, forgotten, knowledgeFaults>>

WriteEnds ==
  /\ writer # NoSnapshot /\ writer' = NoSnapshot
  /\ \/ written' = writer /\ UNCHANGED <<failedWrites, knowledgeFaults>>
     \/ KnowledgeFault /\ failedWrites' = failedWrites \cup {writer} /\ UNCHANGED written
  /\ UNCHANGED <<knowledge, publisher, mailbox, woken, attempted, forgotten>>

\* A crash, and a start that reads the file: what cannot be read, or has another
\* schema, counts as empty, and is overwritten by the next change.
CrashAndLoad ==
  /\ KnowledgeFault
  /\ \E loaded \in {0, written} :
       /\ knowledge' = loaded /\ attempted' = loaded
       /\ forgotten' = (forgotten \/ loaded # written)
  /\ publisher' = [p \in Publishers |-> Resting]
  /\ mailbox' = NoSnapshot /\ woken' = FALSE /\ writer' = NoSnapshot
  /\ failedWrites' = {} /\ UNCHANGED written

Publishes(p) == TakeSnapshot(p) \/ Publish(p) \/ Wake(p)
Writes == WriterTakes \/ WriteEnds

KnowledgeNext ==
  \/ \E p \in Publishers : Merge(p) \/ Publishes(p)
  \/ Writes \/ CrashAndLoad

\* The operations are polled and the writer thread is scheduled.
KnowledgeFairness ==
  /\ \A p \in Publishers : WF_knowledgeVars(Publishes(p))
  /\ WF_knowledgeVars(Writes)

KnowledgeSpec == KnowledgeInit /\ [][KnowledgeNext]_knowledgeVars /\ KnowledgeFairness

-----------------------------------------------------------------------------
(* Properties. *)

\* "Advance before the write so a failed newer snapshot can never be followed by
\* an older snapshot that happened to publish later": in whatever order snapshots
\* are published and crashes happen, the file is not replaced by an older one, and
\* not by one older than a snapshot whose write failed - unless the file could not
\* be read.
KnowledgeNeverOlder ==
  [][written' # written /\ ~forgotten =>
       written' > written /\ \A v \in failedWrites : written' > v]_knowledgeVars

\* Every change reaches the file, or a write of it or of a newer version failed:
\* no wake-up is lost, whatever is coalesced.
ChangesReachFile == <>[](written >= knowledge \/ \E v \in failedWrites : v >= knowledge)
=============================================================================
