------------------------------- MODULE Retries -------------------------------
(***************************************************************************)
(* Requests that name an idempotency key (prayer-api, v1.rs and http.rs):  *)
(* a retry of a request that may have been carried out must find what it   *)
(* did.  Starts of runs are recorded in a file, administrative mutations   *)
(* in memory only.                                                         *)
(*                                                                         *)
(* A handler may be dropped wherever it awaits: its client has gone.  What *)
(* it handed to the blocking pool - writing the file - goes on.            *)
(***************************************************************************)
EXTENDS Naturals, Sequences, FiniteSets

CONSTANTS
  Requests,
  RunKeys, AdminKeys, Bodies,
  MaxRuns, MaxCrashes,    \* bounds
  NoOne, Garbled, Nothing

\* What a request left behind: its fingerprint and its run.
Recorded == [body : Bodies, run : Nat]

\* Keys of runs and of mutations are told apart by the path they are for, and a file
\* that is missing or cannot be read is told from one that can.
ASSUME RetryAssumption ==
  /\ NoOne \notin Requests /\ RunKeys \cap AdminKeys = {} /\ Garbled # Nothing
  /\ \A K \in SUBSET RunKeys : Garbled \notin [K -> Recorded] /\ Nothing \notin [K -> Recorded]

VARIABLES
  requests,   \* what each handler does: [phase, key, body, run]
  gates,      \* who holds the gate of each key
  records,    \* key -> [body, run]
  writing,    \* who holds the persistence lock
  writers,    \* writes of the file under way, by request: the records to write
  file,
  lane,       \* the bot's action lane: the run that claims it and how far it got
  runs,       \* history: [key, body, begun] of each run or mutation
  excused,    \* history: keys whose handler was dropped, or the process crashed, before the record was safe
  collided,   \* history: two writes of the file were under way at once
  crashes

retryVars == <<requests, gates, records, writing, writers, file, lane, runs, excused, collided, crashes>>

IdempotencyKeys == RunKeys \cup AdminKeys

\* key_guard: one flight per key; one lock for all administrative mutations.
Gate(k) == IF k \in AdminKeys THEN "admin" ELSE k
Gates == RunKeys \cup {"admin"}
NoLane == [run |-> 0, stage |-> "free"]
Idle == [phase |-> "idle"]

RetryInit ==
  /\ requests = [r \in Requests |-> Idle] /\ gates = [g \in Gates |-> NoOne]
  /\ records = <<>> /\ writing = NoOne /\ writers = <<>> /\ file = Nothing
  /\ lane = NoLane /\ runs = <<>> /\ excused = {} /\ collided = FALSE /\ crashes = 0

Phase(r) == requests[r].phase
Key(r)   == requests[r].key
To(r, phase) == requests' = [requests EXCEPT ![r].phase = phase]
GateOpened(r) == gates' = [g \in Gates |-> IF gates[g] = r THEN NoOne ELSE gates[g]]
Finished(r, answer) ==
  /\ requests' = [requests EXCEPT ![r].phase = answer] /\ GateOpened(r)
  /\ writing' = IF writing = r THEN NoOne ELSE writing

-----------------------------------------------------------------------------
(* start_action_run, start_script_run and enforce_mutation_idempotency. *)

Arrive(r, k, b) ==
  /\ Phase(r) = "idle"
  /\ requests' = [requests EXCEPT ![r] = [phase |-> "waiting", key |-> k, body |-> b, run |-> 0]]
  /\ UNCHANGED <<gates, records, writing, writers, file, lane, runs, excused, collided, crashes>>

\* Mutant: requests with the same key do not wait for each other.
Unguarded(r) == TRUE

MayPass(r) == gates[Gate(Key(r))] = NoOne

TakeGate(r) ==
  /\ Phase(r) = "waiting" /\ MayPass(r)
  /\ gates' = [gates EXCEPT ![Gate(Key(r))] = r] /\ To(r, "looking")
  /\ UNCHANGED <<records, writing, writers, file, lane, runs, excused, collided, crashes>>

\* A record with the same fingerprint is replayed, another is a conflict.
LookUp(r) ==
  /\ Phase(r) = "looking"
  /\ IF Key(r) \notin DOMAIN records THEN To(r, "starting") /\ UNCHANGED <<gates, writing>>
     ELSE LET same == records[Key(r)].body = requests[r].body
          IN /\ requests' = [requests EXCEPT ![r].phase = IF same THEN "replayed" ELSE "refused",
                                             ![r].run = IF same THEN records[Key(r)].run ELSE 0]
             /\ GateOpened(r) /\ UNCHANGED writing
  /\ UNCHANGED <<records, writers, file, lane, runs, excused, collided, crashes>>

NewRun(r, begun) == runs' = Append(runs, [key |-> Key(r), body |-> requests[r].body, begun |-> begun])

\* An administrative mutation runs while the lock on all records is held.
Mutate(r) ==
  /\ Phase(r) = "starting" /\ Key(r) \in AdminKeys /\ Len(runs) < MaxRuns
  /\ NewRun(r, TRUE)
  /\ requests' = [requests EXCEPT ![r].phase = "started", ![r].run = Len(runs) + 1]
  /\ UNCHANGED <<gates, records, writing, writers, file, lane, excused, collided, crashes>>

\* start_actions: the lane is claimed, the actions are submitted, the runner is made
\* sure of; the first two are followed by saving the sessions.
Acquire(r) ==
  /\ Phase(r) = "starting" /\ Key(r) \in RunKeys /\ Len(runs) < MaxRuns
  /\ IF lane = NoLane
     THEN /\ NewRun(r, FALSE) /\ lane' = [run |-> Len(runs) + 1, stage |-> "claimed"]
          /\ requests' = [requests EXCEPT ![r].phase = "claimed", ![r].run = Len(runs) + 1]
          /\ UNCHANGED <<gates, writing>>
     ELSE Finished(r, "refused") /\ UNCHANGED <<lane, runs>>
  /\ UNCHANGED <<records, writers, file, excused, collided, crashes>>

\* Either step may fail: the run is cancelled.
Advance(r, ok) ==
  /\ Phase(r) = "claimed"
  /\ IF ~ok THEN Finished(r, "refused") /\ lane' = NoLane /\ UNCHANGED runs
     ELSE /\ UNCHANGED <<gates, writing>>
          /\ IF lane.stage = "claimed"
             THEN lane' = [lane EXCEPT !.stage = "loaded"] /\ UNCHANGED <<requests, runs>>
             ELSE /\ lane' = [lane EXCEPT !.stage = "running"] /\ To(r, "started")
                  /\ runs' = [runs EXCEPT ![lane.run].begun = TRUE]
  /\ UNCHANGED <<records, writers, file, excused, collided, crashes>>

EndRun ==
  /\ lane.stage = "running" /\ lane' = NoLane
  /\ UNCHANGED <<requests, gates, records, writing, writers, file, runs, excused, collided, crashes>>

\* insert_and_persist; a mutation is answered with its record.
Insert(r) ==
  /\ Phase(r) = "started"
  /\ records' = [k \in DOMAIN records \cup {Key(r)} |->
                   IF k = Key(r) THEN [body |-> requests[r].body, run |-> requests[r].run] ELSE records[k]]
  /\ IF Key(r) \in AdminKeys THEN Finished(r, "answered") ELSE To(r, "recorded") /\ UNCHANGED <<gates, writing>>
  /\ UNCHANGED <<writers, file, lane, runs, excused, collided, crashes>>

\* Mutant: only the new record is written.
OwnRecord(r) == [k \in {Key(r)} |-> records[k]]

ToWrite(r) == [k \in DOMAIN records \cap RunKeys |-> records[k]]

Persist(r) ==
  /\ Phase(r) = "recorded" /\ writing = NoOne /\ writing' = r
  /\ writers' = [w \in DOMAIN writers \cup {r} |-> IF w = r THEN ToWrite(r) ELSE writers[w]]
  /\ collided' = (collided \/ DOMAIN writers # {})
  /\ To(r, "writing")
  /\ UNCHANGED <<gates, records, file, lane, runs, excused, crashes>>

\* persist_idempotency writes a file beside the real one and renames it; two at once
\* use the same.  A failure leaves the file as it was.
Outcomes(r) == {file, writers[r]} \cup (IF Cardinality(DOMAIN writers) > 1 THEN {Garbled} ELSE {})
Written(r, f) ==
  /\ r \in DOMAIN writers /\ f \in Outcomes(r) /\ file' = f
  /\ writers' = [w \in DOMAIN writers \ {r} |-> writers[w]]
  /\ IF Phase(r) = "writing" THEN Finished(r, IF f = writers[r] THEN "answered" ELSE "refused")
     ELSE UNCHANGED <<requests, gates, writing>>
  /\ UNCHANGED <<records, lane, runs, excused, collided, crashes>>

-----------------------------------------------------------------------------
(* Faults. *)

\* Where a handler has work behind it that nothing records yet.
Unrecorded == {"claimed", "started"}

DropHandler(r) ==
  /\ Phase(r) \in {"waiting", "looking", "starting", "claimed", "started", "recorded", "writing"}
  /\ Finished(r, "dropped")
  /\ excused' = IF Phase(r) \in Unrecorded THEN excused \cup {Key(r)} ELSE excused
  /\ UNCHANGED <<records, writers, file, lane, runs, collided, crashes>>

\* load_idempotency: a file that cannot be read is an empty one.  A run that was
\* saved with the sessions goes on.
Readable == IF file \in {Garbled, Nothing} THEN <<>> ELSE file
Crash(saved) ==
  /\ crashes < MaxCrashes /\ crashes' = crashes + 1
  /\ requests' = [r \in Requests |-> IF Phase(r) \in {"answered", "replayed", "refused", "dropped", "idle"} THEN requests[r]
                                     ELSE [requests[r] EXCEPT !.phase = "dropped"]]
  /\ gates' = [g \in Gates |-> NoOne] /\ writing' = NoOne /\ writers' = <<>>
  /\ records' = Readable
  /\ excused' = excused \cup {k \in IdempotencyKeys : k \notin DOMAIN Readable /\ \E i \in 1..Len(runs) : runs[i].key = k}
  /\ lane' = IF saved THEN lane ELSE NoLane
  /\ UNCHANGED <<file, runs, collided>>

RetryNext ==
  \/ \E r \in Requests, k \in IdempotencyKeys, b \in Bodies : Arrive(r, k, b)
  \/ \E r \in Requests : TakeGate(r) \/ LookUp(r) \/ Mutate(r) \/ Acquire(r) \/ Insert(r) \/ Persist(r) \/ DropHandler(r)
  \/ \E r \in Requests, ok \in BOOLEAN : Advance(r, ok)
  \/ \E r \in DOMAIN writers : \E f \in Outcomes(r) : Written(r, f)
  \/ EndRun
  \/ \E saved \in BOOLEAN : Crash(saved)

RetrySpec == RetryInit /\ [][RetryNext]_retryVars

-----------------------------------------------------------------------------
(* Properties. *)

BegunFor(k) == {i \in 1..Len(runs) : runs[i].key = k /\ runs[i].begun}

\* However requests with one key overlap, fail, are dropped or repeated, they begin
\* one run (or mutate once) and every answer names a run of that key and that
\* request - unless a handler was dropped or the process crashed between the run and
\* its record.
OneRunPerKey ==
  /\ \A k \in IdempotencyKeys \ excused : Cardinality(BegunFor(k)) <= 1
  /\ \A r \in Requests : Phase(r) \in {"answered", "replayed"} =>
       runs[requests[r].run].key = Key(r) /\ runs[requests[r].run].body = requests[r].body

\* What was answered as done stays in the file (a replay may come from a record that
\* never got there): the writes of overlapping requests lose
\* nothing of each other, and a crash at any point leaves all of it - unless a dropped
\* handler let a second write begin before the first had ended.
RecordsSurvive ==
  collided \/ \A r \in Requests : Phase(r) = "answered" /\ Key(r) \in RunKeys =>
    file \notin {Garbled, Nothing} /\ Key(r) \in DOMAIN file

\* What the documentation promises of the records: retries are safe.
SafeRetries == \A k \in RunKeys : Cardinality(BegunFor(k)) <= 1
=============================================================================
