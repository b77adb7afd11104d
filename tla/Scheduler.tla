----------------------------- MODULE Scheduler -----------------------------
(***************************************************************************)
(* The prayer-scheduler state machine: one Scheduler and callers that may  *)
(* call any method in any order with any claim they were ever given,       *)
(* current or stale.  A call that the code answers with an error changes   *)
(* nothing and is not a step.                                              *)
(*                                                                         *)
(* Envelope ids are unique in the code (a uuid or a run id and an index);  *)
(* here they are numbers handed out in submission order, so that "earlier" *)
(* is "smaller".                                                           *)
(***************************************************************************)
EXTENDS SchedulerOps

CONSTANTS
  MaxBatch,        \* bound: envelopes per submitted batch
  MaxGeneration    \* bound: claims and invalidations

ASSUME SchedulerAssumption ==
  /\ EnvelopeIds \subseteq Nat /\ None \notin EnvelopeIds
  /\ MaxBatch \in Nat /\ MaxGeneration \in Nat

VARIABLES
  sched,       \* the Scheduler
  submitted,   \* how many envelopes callers have submitted
  issued       \* every QueueClaim ever returned to a caller

vars == <<sched, submitted, issued>>

Init ==
  /\ sched = NewScheduler
  /\ submitted = 0
  /\ issued = {}

-----------------------------------------------------------------------------
(* claim and reclaim; release, cancel, halt. *)

ClaimLane(owner) ==
  /\ CanClaim(sched) /\ sched.generation < MaxGeneration
  /\ sched' = Claim(sched, owner)
  /\ issued' = issued \cup {sched'.claim}
  /\ UNCHANGED submitted

\* Compare-and-swap on the generation the caller observed earlier.
ReclaimLane(expected, owner) ==
  /\ CanReclaim(sched, expected)
  /\ ClaimLane(owner)

ReleaseLane(c) ==
  /\ Authorized(sched, c)
  /\ sched' = Release(sched)
  /\ UNCHANGED <<submitted, issued>>

CancelLane(c) ==
  /\ Authorized(sched, c)
  /\ sched' = Cancel(sched)
  /\ UNCHANGED <<submitted, issued>>

HaltAll ==
  /\ sched.generation < MaxGeneration
  /\ sched' = Halt(sched)
  /\ UNCHANGED <<submitted, issued>>

-----------------------------------------------------------------------------
(* append and append_interrupts.  No caller submits an empty batch: the    *)
(* engine rejects it before it reaches the scheduler.                      *)

Batch(n, policy) == [i \in 1..n |-> [id |-> submitted + i, policy |-> policy]]

BatchAvailable(n) == \A i \in 1..n : submitted + i \in EnvelopeIds

AppendWork(c, n) ==
  /\ Authorized(sched, c) /\ BatchAvailable(n)
  /\ sched' = AppendBatch(sched, Batch(n, "run"))
  /\ submitted' = submitted + n
  /\ UNCHANGED issued

\* The deferred return to the origin may follow the client's actions.
InterruptBatch(n, last) == [Batch(n, "client") EXCEPT ![n].policy = last]

AppendOverride(n, last) ==
  /\ CanAppendInterrupts(sched) /\ BatchAvailable(n)
  /\ last = "client_return_to_origin" => n > 1
  /\ sched' = AppendInterrupts(sched, InterruptBatch(n, last))
  /\ submitted' = submitted + n
  /\ UNCHANGED issued

MaterializeReturn ==
  /\ sched' = ReplaceInterruptPolicy(sched, "client_return_to_origin",
                                     "client_return_to_origin_ready")
  /\ UNCHANGED <<submitted, issued>>

-----------------------------------------------------------------------------
(* The executor's calls. *)

StartNextAction ==
  /\ ~StartNextFails(sched)
  /\ sched' = StartNext(sched)
  /\ UNCHANGED <<submitted, issued>>

StoreContinuation(lane, k) ==
  /\ LaneRunning(sched, lane) # None
  /\ sched' = SetContinuation(sched, lane, k)
  /\ UNCHANGED <<submitted, issued>>

CompleteAction(lane, outcome) ==
  /\ LaneRunning(sched, lane) # None
  /\ sched' = Complete(sched, lane, outcome)
  /\ UNCHANGED <<submitted, issued>>

-----------------------------------------------------------------------------
Next ==
  \/ \E o \in Owners : ClaimLane(o)
  \/ \E g \in 0..MaxGeneration, o \in Owners : ReclaimLane(g, o)
  \/ \E c \in issued : ReleaseLane(c)
  \/ \E c \in issued : CancelLane(c)
  \/ HaltAll
  \/ \E c \in issued, n \in 1..MaxBatch : AppendWork(c, n)
  \/ \E n \in 1..MaxBatch, last \in {"client", "client_return_to_origin"} :
       AppendOverride(n, last)
  \/ MaterializeReturn
  \/ StartNextAction
  \/ \E lane \in Lanes, k \in Continuations \cup {None} : StoreContinuation(lane, k)
  \/ \E lane \in Lanes : CompleteAction(lane, "succeeded")

Spec == Init /\ [][Next]_vars

-----------------------------------------------------------------------------
(* Properties. *)

\* The state has the shape the Rust types give it.
TypeOK ==
  /\ sched \in SchedulerStates
  /\ submitted \in Nat
  /\ issued \subseteq QueueClaims

\* The running normal action is never left paused when the last interrupt is
\* done or dropped, and never runs beside one.
PausedIffPreempted == PauseFlagCorrect(sched)

\* The ids in a queue, and in the completion log.
QueueIds(q) == {q[i].id : i \in DOMAIN q}
RunningIds(r) == IF r = None THEN {} ELSE {r.env.id}
CompletedIds(s) == {s.completed[i].env.id : i \in DOMAIN s.completed}

\* "preventing stale owners from appending, cancelling, or releasing work": a
\* claim that is not the current one never becomes current again, although
\* the same owner may claim the lane again.
StaleClaimsStayStale ==
  [][\A c \in issued : c # sched.claim => c # sched'.claim]_vars

\* The interrupt lane takes precedence: while it has work nothing starts on
\* the normal lane, whoever owns it.
InterruptPrecedence ==
  [][sched.running = None /\ sched'.running # None => ~InterruptBusy(sched)]_vars

-----------------------------------------------------------------------------
(* The scheduler implements ExclusiveExecution: the action to execute is   *)
(* the interrupt if there is one, else the normal action unless it is      *)
(* paused, in which case it is the suspended one.                          *)

Ongoing(r, wanted) == IF r # None /\ wanted THEN r.env.id ELSE None

ActiveId ==
  IF sched.interrupt # None THEN sched.interrupt.env.id
  ELSE Ongoing(sched.running, sched.running # None /\ ~sched.running.paused)

SuspendedId == Ongoing(sched.running, sched.running # None /\ sched.running.paused)

Abstract ==
  INSTANCE ExclusiveExecution WITH
    Work <- EnvelopeIds,
    Nothing <- None,
    waiting <- QueueIds(sched.pending) \cup QueueIds(sched.interruptPending),
    active <- ActiveId,
    suspended <- SuspendedId,
    finished <- CompletedIds(sched)

ImplementsExclusiveExecution == Abstract!Spec
=============================================================================
