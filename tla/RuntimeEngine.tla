--------------------------- MODULE RuntimeEngine ---------------------------
(***************************************************************************)
(* prayer-runtime's RuntimeEngine (one PrayerLang producer and one         *)
(* scheduler) together with the step loop of prayer-sdk that drives it.    *)
(*                                                                         *)
(* The engine is guarded by the session mutex, so an action here is what   *)
(* one critical section does.  A step of the loop is two of them, decide   *)
(* and apply, with the SpaceMolt I/O of the action in between and the      *)
(* mutex free: clients cancel, halt, override, load scripts and acquire    *)
(* the lane at any moment of that I/O.  A failed step is followed by a     *)
(* third critical section, fail_action_run.                                *)
(*                                                                         *)
(* A continuation (the ActiveCommandState of a multi-tick action) is       *)
(* represented by the id of the envelope whose progress it records.        *)
(* `is_halted` is left out: every assignment sets it to false.             *)
(***************************************************************************)
EXTENDS SchedulerOps, FiniteSets

CONSTANTS
  Runs,            \* run ids of typed action batches
  Script,          \* the QueueOwner of whichever script is loaded
  Runner,          \* the registered runner of the session
  Hosts,           \* host-loop steps taken beside it (refresh_idle_session)
  MaxBatch,        \* bound: actions per batch or override
  MaxScript,       \* bound: statements per script
  MaxGeneration    \* bound: claims and invalidations of one scheduler

Steppers == {Runner} \cup Hosts

ASSUME EngineAssumption ==
  /\ Owners = Runs \cup {Script} /\ Script \notin Runs
  /\ Runner \notin Hosts
  /\ EnvelopeIds \subseteq Nat /\ Continuations = EnvelopeIds
  /\ None \notin Nat
  /\ MaxBatch \in Nat /\ MaxScript \in Nat /\ MaxGeneration \in Nat

VARIABLES
  sched,        \* the Scheduler
  queueClaim,   \* queue_claim: the claim the engine acts under
  producer,     \* PrayerLangRun: the loaded script and its cursor
  actionRun,    \* action_run: the latest typed run, finished or not
  step,         \* where each stepper is in its loop
  loading,      \* a set_script call has passed its "no runner" check
  acquired,     \* run ids handed out so far: a run id is never reused
  submitted     \* how many envelopes have been created

engine == <<sched, queueClaim, producer, actionRun>>
ledger == <<acquired, submitted>>
vars == <<engine, step, loading, ledger>>

-----------------------------------------------------------------------------
Producers ==
  [len : Nat \cup {None},           \* statements, None before any script
   index : Nat,                     \* next statement
   framed : BOOLEAN,                \* the execution frame exists
   active : Continuations \cup {None},  \* frame.active_command
   finished : BOOLEAN]

NoScript == [len |-> None, index |-> 0, framed |-> FALSE, active |-> None, finished |-> FALSE]

\* ActionBatchOutcome; nothing ever constructs Halted.
RunOutcomes == {"succeeded", "failed", "cancelled", "halted"}
ActionRuns  == [id : Runs, actions : Seq(Envelopes), outcome : RunOutcomes \cup {None}]
ASSUME NoRunAssumption == None \notin ActionRuns

Steps == [phase : {"off", "deciding", "io", "failing"},
          env : Envelopes \cup {None}, cont : Continuations \cup {None}]

At(phase) == [phase |-> phase, env |-> None, cont |-> None]

Init ==
  /\ sched = NewScheduler /\ queueClaim = None
  /\ producer = NoScript /\ actionRun = None
  /\ step = [p \in Steppers |-> At("off")]
  /\ loading = FALSE
  /\ acquired = {} /\ submitted = 0

Goto(p, phase) == step' = [step EXCEPT ![p] = At(phase)]

RunnerOff == step[Runner].phase = "off"

\* n fresh envelopes, the last of which may carry a policy of its own.
Available(n) == \A i \in 1..n : submitted + i \in EnvelopeIds
Batch(n, policy, last) ==
  [i \in 1..n |-> [id |-> submitted + i, policy |-> IF i = n THEN last ELSE policy]]

-----------------------------------------------------------------------------
(* Clients. *)

\* RuntimeService::set_script checks that no runner is registered, and later,
\* under the session mutex, that no typed run owns the lane.
BeginSetScript ==
  /\ RunnerOff /\ ~loading
  /\ loading' = TRUE
  /\ UNCHANGED <<engine, step, ledger>>

\* The engine gets a new scheduler; the typed run of before stays in place.
SetScript(len) ==
  /\ loading
  /\ queueClaim # None => queueClaim.owner = Script
  /\ producer' = [NoScript EXCEPT !.len = len, !.framed = TRUE]
  /\ sched' = Claim(NewScheduler, Script)
  /\ queueClaim' = sched'.claim
  /\ loading' = FALSE
  /\ UNCHANGED <<actionRun, step, ledger>>

\* try_acquire_action_lane.
AcquireRun(r) ==
  /\ r \notin acquired
  /\ queueClaim = None /\ CanClaim(sched) /\ sched.generation < MaxGeneration
  /\ sched' = Claim(sched, r)
  /\ queueClaim' = sched'.claim
  /\ actionRun' = [id |-> r, actions |-> <<>>, outcome |-> None]
  /\ acquired' = acquired \cup {r}
  /\ UNCHANGED <<producer, step, loading, submitted>>

\* submit_action_batch: only the client that acquired the current claim
\* presents it.
SubmitBatch(n) ==
  /\ actionRun # None /\ actionRun.actions = <<>>
  /\ Authorized(sched, queueClaim) /\ queueClaim.owner = actionRun.id
  /\ Available(n)
  /\ sched' = AppendBatch(sched, Batch(n, "run", "run"))
  /\ actionRun' = [actionRun EXCEPT !.actions = Batch(n, "run", "run")]
  /\ submitted' = submitted + n
  /\ UNCHANGED <<queueClaim, producer, step, loading, acquired>>

\* The deferred return is appended behind the client's own actions.
SubmitOverride(n, last) ==
  /\ CanAppendInterrupts(sched) /\ Available(n)
  /\ last = "client_return_to_origin" => n > 1
  /\ sched' = AppendInterrupts(sched, Batch(n, "client", last))
  /\ submitted' = submitted + n
  /\ UNCHANGED <<queueClaim, producer, actionRun, step, loading, acquired>>

\* Mutant: the claim is used but not taken.
CancelRunKeepsClaim ==
  /\ actionRun # None /\ actionRun.outcome = None
  /\ actionRun' = [actionRun EXCEPT !.outcome = "cancelled"]
  /\ sched' = IF Authorized(sched, queueClaim) THEN Cancel(sched) ELSE sched
  /\ UNCHANGED <<queueClaim, producer, step, loading, ledger>>

CancelRun ==
  /\ actionRun # None /\ actionRun.outcome = None
  /\ actionRun' = [actionRun EXCEPT !.outcome = "cancelled"]
  /\ queueClaim' = None
  /\ sched' = IF Authorized(sched, queueClaim) THEN Cancel(sched) ELSE sched
  /\ UNCHANGED <<producer, step, loading, ledger>>

\* Mutant: the lane is given back with its queue.
EngineReleased(s, q) ==
  /\ sched' = Release(s)
  /\ queueClaim' = None
  /\ producer' = [q EXCEPT !.finished = TRUE]

\* RuntimeEngine::halt, on the scheduler and the producer it is given.
EngineHalted(s, q) ==
  /\ sched' = Halt(s)
  /\ queueClaim' = None
  /\ producer' = [q EXCEPT !.finished = TRUE]

\* RuntimeService::halt and cancel_script_run.
HaltSession ==
  /\ sched.generation < MaxGeneration
  /\ EngineHalted(sched, producer)
  /\ UNCHANGED <<actionRun, step, loading, ledger>>

-----------------------------------------------------------------------------
(* The step loop: decide. *)

\* A runner enters its loop, again and again if it is an action runner.
StartRunner ==
  /\ RunnerOff
  /\ Goto(Runner, "deciding")
  /\ UNCHANGED <<engine, loading, ledger>>

\* The host loop steps an idle session itself, without registering.
StartHostStep(h) ==
  /\ step[h].phase = "off" /\ RunnerOff
  /\ Goto(h, "deciding")
  /\ UNCHANGED <<engine, loading, ledger>>

\* active_command_state: the first continuation found, in this order.
ActiveContinuation(s, q) ==
  IF s.interrupt # None /\ s.interrupt.cont # None THEN s.interrupt.cont
  ELSE IF s.running # None /\ s.running.cont # None THEN s.running.cont
  ELSE q.active

StartIo(p, env) ==
  step' = [step EXCEPT ![p] = [phase |-> "io", env |-> env,
                               cont |-> ActiveContinuation(sched', producer')]]

\* Mutant: a normal action is ticked on while an override waits.
DecideContinueUnpreempted(p) ==
  /\ step[p].phase = "deciding"
  /\ UNCHANGED <<engine, loading, ledger>>
  /\ \/ sched.interrupt # None /\ StartIo(p, sched.interrupt.env)
     \/ sched.interrupt = None /\ sched.running # None /\ StartIo(p, sched.running.env)

DecideContinue(p) ==
  /\ step[p].phase = "deciding"
  /\ UNCHANGED <<engine, loading, ledger>>
  /\ \/ sched.interrupt # None /\ StartIo(p, sched.interrupt.env)
     \/ ~InterruptBusy(sched) /\ sched.running # None /\ StartIo(p, sched.running.env)

\* The deferred return to the origin gets its destination at preemption.
DecideOverride(p) ==
  /\ step[p].phase = "deciding" /\ CanStartInterrupt(sched)
  /\ sched' = StartInterrupt(ReplaceInterruptPolicy(sched,
                 "client_return_to_origin", "client_return_to_origin_ready"))
  /\ UNCHANGED <<queueClaim, producer, actionRun, loading, ledger>>
  /\ StartIo(p, sched'.interrupt.env)

LaneIdle == ~InterruptBusy(sched) /\ sched.running = None

\* A run that ends in its loop goes off; the runner marks a failure first.
StepError(p) == Goto(p, IF p = Runner THEN "failing" ELSE "off")

DecideTyped(p) ==
  /\ step[p].phase = "deciding" /\ LaneIdle
  /\ actionRun # None /\ sched.pending # <<>>
  /\ sched' = StartNormal(sched)
  /\ UNCHANGED <<queueClaim, producer, actionRun, loading, ledger>>
  /\ StartIo(p, sched'.running.env)

\* An idle lane beside a typed run: nothing to do.
DecideTypedDrained(p) ==
  /\ step[p].phase = "deciding" /\ LaneIdle
  /\ actionRun # None /\ sched.pending = <<>>
  /\ Goto(p, "off")
  /\ UNCHANGED <<engine, loading, ledger>>

\* PrayerLangRun::decide yields Complete; the claim is given back.
DecideScriptComplete(p) ==
  /\ step[p].phase = "deciding" /\ LaneIdle /\ actionRun = None
  /\ \/ producer.len = None
     \/ producer.framed /\ producer.active = None /\ producer.index >= producer.len
  /\ producer' = [producer EXCEPT !.framed = FALSE, !.finished = TRUE]
  /\ sched' = IF queueClaim = None THEN sched ELSE Release(sched)
  /\ queueClaim' = None
  /\ Goto(p, "off")
  /\ UNCHANGED <<actionRun, loading, ledger>>

ScriptHasCommand ==
  /\ producer.len # None /\ producer.framed
  /\ producer.active # None \/ producer.index < producer.len

\* The next statement, or the one in progress; a multi-tick command gets its
\* initial continuation.
CommandTaken(k) ==
  producer' = IF producer.active # None THEN producer
              ELSE [producer EXCEPT !.index = @ + 1, !.active = k]

DecideScript(p) ==
  /\ step[p].phase = "deciding" /\ LaneIdle /\ actionRun = None
  /\ ScriptHasCommand /\ queueClaim # None /\ Available(1)
  /\ \E k \in {None, submitted + 1} : CommandTaken(k)
  /\ sched' = StartNext(AppendBatch(sched, Batch(1, "script", "script")))
  /\ submitted' = submitted + 1
  /\ UNCHANGED <<queueClaim, actionRun, loading, acquired>>
  /\ StartIo(p, sched'.running.env)

\* Either the frame is gone (finish_linear_run_if_drained) or the claim is.
DecideScriptFails(p) ==
  /\ step[p].phase = "deciding" /\ LaneIdle /\ actionRun = None
  /\ \/ producer.len # None /\ ~producer.framed /\ UNCHANGED producer
     \/ /\ ScriptHasCommand /\ queueClaim = None /\ Available(1)
        /\ \E k \in {None, submitted + 1} : CommandTaken(k)
  /\ StepError(p)
  /\ UNCHANGED <<sched, queueClaim, actionRun, loading, ledger>>

-----------------------------------------------------------------------------
(* The step loop: apply.  The result is credited to whatever runs on the   *)
(* lane in charge at that moment.                                          *)

\* Mutant: the normal lane is looked at first.
ResultLaneNormalFirst == IF sched.running # None THEN "normal" ELSE "interrupt"

ResultLane == IF sched.interrupt # None THEN "interrupt" ELSE "normal"

\* What the planner hands back: what it was given, or its own state.
PlannerContinuations(p) == {step[p].cont, step[p].env.id}

\* set_active_command_state writes the frame too if the lane is the normal one.
Ticked(k) == SetContinuation(sched, ResultLane, k)
FrameTicked(k) ==
  IF ResultLane = "normal" /\ producer.framed THEN [producer EXCEPT !.active = k] ELSE producer

\* The runner goes on; the host loop takes one step.  A runner that executes only
\* until its first pause ends there (execute_script_until_pause).
NextStep(p) == Goto(p, "off") \/ (p = Runner /\ Goto(p, "deciding"))

ResultPaused(p) ==
  /\ step[p].phase = "io"
  /\ \E k \in PlannerContinuations(p) :
       sched' = Ticked(k) /\ producer' = FrameTicked(k)
  /\ NextStep(p)
  /\ UNCHANGED <<queueClaim, actionRun, loading, ledger>>

\* finish_linear_run_if_drained, after the frame's active command is cleared.
FrameCompleted ==
  LET q == FrameTicked(None) IN
  IF ResultLane = "normal" /\ actionRun = None /\ q.framed /\ q.index >= q.len
  THEN [q EXCEPT !.framed = FALSE, !.finished = TRUE]
  ELSE q

\* Mutant: the run is over when its first action is.
RunDrainedAtOnce(s) == ResultLane = "normal" /\ actionRun # None

\* The typed run has succeeded once its lane has nothing pending.
RunDrained(s) == ResultLane = "normal" /\ actionRun # None /\ s.pending = <<>>
RunSucceeded(s) ==
  IF RunDrained(s) THEN [actionRun EXCEPT !.outcome = "succeeded"] ELSE actionRun

\* The action completed, or it was the best-effort return and failed.
ResultCompleted(p) ==
  /\ step[p].phase = "io"
  /\ LET s == Complete(sched, ResultLane, "succeeded") IN
       /\ sched' = IF RunDrained(s) /\ queueClaim # None THEN Release(s) ELSE s
       /\ queueClaim' = IF RunDrained(s) THEN None ELSE queueClaim
       /\ actionRun' = RunSucceeded(s)
  /\ producer' = FrameCompleted
  /\ NextStep(p)
  /\ UNCHANGED <<loading, ledger>>

\* A halt action completes, halts the engine, and only then is the run judged.
\* PrayerLang's catalog has no halt, so it comes in a batch or an override.
ResultHalt(p) ==
  /\ step[p].phase = "io" /\ step[p].env.policy # "script"
  /\ LET s == Halt(Complete(sched, ResultLane, "succeeded")) IN
       /\ EngineHalted(s, FrameCompleted)
       /\ actionRun' = RunSucceeded(s)
  /\ NextStep(p)
  /\ UNCHANGED <<loading, ledger>>

Restoring ==
  sched.interrupt # None /\ sched.interrupt.env.policy = "client_return_to_origin_ready"

\* The operation failed: the engine halts, the runner will report the failure.
ResultFailed(p) ==
  /\ step[p].phase = "io" /\ ~Restoring
  /\ \E k \in PlannerContinuations(p) : EngineHalted(Ticked(k), FrameTicked(k))
  /\ StepError(p)
  /\ UNCHANGED <<actionRun, loading, ledger>>

\* fail_action_run, in a critical section of its own.
FailRun ==
  /\ step[Runner].phase = "failing"
  /\ IF actionRun # None /\ actionRun.outcome = None
     THEN /\ actionRun' = [actionRun EXCEPT !.outcome = "failed"]
          /\ EngineHalted(sched, producer)
     ELSE UNCHANGED engine
  /\ Goto(Runner, "off")
  /\ UNCHANGED <<loading, ledger>>

\* The halt watch, or a refresh of the bot that fails before the decision or
\* after the operation, ends the step: its result, if any, is not applied.
DropStep(p) ==
  /\ step[p].phase \in {"deciding", "io"}
  /\ Goto(p, "off")
  /\ UNCHANGED <<engine, loading, ledger>>

-----------------------------------------------------------------------------
(* execution_checkpoint and restore_execution_checkpoint: what a process   *)
(* that starts again makes of what the last one persisted.                 *)

\* Mutant: the action in progress is not taken up again.
RestoredWithoutRunning(s) ==
  [s EXCEPT !.interrupt = None, !.interruptPending = <<>>, !.running = None]

Restored(s) ==
  [s EXCEPT !.interrupt = None, !.interruptPending = <<>>, !.running = SetPaused(@, FALSE)]

\* With a typed run in place the producer is not part of the checkpoint.
Restart ==
  /\ sched' = Restored(sched)
  /\ producer' = IF actionRun # None THEN NoScript ELSE producer
  /\ step' = [p \in Steppers |-> At("off")]
  /\ loading' = FALSE
  /\ UNCHANGED <<queueClaim, actionRun, ledger>>

-----------------------------------------------------------------------------
Clients ==
  \/ BeginSetScript
  \/ \E len \in 0..MaxScript : SetScript(len)
  \/ \E r \in Runs : AcquireRun(r)
  \/ \E n \in 1..MaxBatch : SubmitBatch(n)
  \/ \E n \in 1..MaxBatch, last \in {"client", "client_return_to_origin"} : SubmitOverride(n, last)
  \/ CancelRun
  \/ HaltSession

Decide(p) ==
  \/ DecideContinue(p) \/ DecideOverride(p)
  \/ DecideTyped(p) \/ DecideTypedDrained(p)
  \/ DecideScript(p) \/ DecideScriptComplete(p) \/ DecideScriptFails(p)

Apply(p) == ResultPaused(p) \/ ResultCompleted(p) \/ ResultHalt(p) \/ ResultFailed(p)

Next ==
  \/ Clients
  \/ StartRunner
  \/ \E p \in Steppers : Decide(p)
  \/ \E p \in Steppers : Apply(p)
  \/ \E p \in Steppers : DropStep(p)
  \/ FailRun
  \/ Restart

Spec == Init /\ [][Next]_vars

\* Next is a session whose host loop leaves its steps to the registered runner.
NextBesideHosts == Next \/ \E h \in Hosts : StartHostStep(h)

SpecBesideHosts == Init /\ [][NextBesideHosts]_vars

-----------------------------------------------------------------------------
(* Properties. *)

\* The state has the shape the Rust types give it.
TypeOK ==
  /\ sched \in SchedulerStates
  /\ queueClaim \in QueueClaims \cup {None}
  /\ producer \in Producers
  /\ actionRun \in ActionRuns \cup {None}
  /\ step \in [Steppers -> Steps]
  /\ loading \in BOOLEAN
  /\ acquired \subseteq Runs /\ submitted \in Nat

Ids(q) == {q[i].id : i \in DOMAIN q}
RunningIds(r) == IF r = None THEN {} ELSE {r.env.id}
SucceededIds(s) ==
  {s.completed[i].env.id : i \in {j \in DOMAIN s.completed : s.completed[j].outcome = "succeeded"}}

\* The engine and the scheduler never disagree on who owns the lane: so
\* release and cancel are never refused, and every checkpoint can be restored
\* ("scheduler, producer, and action run do not match" cannot happen).
ClaimAgreement == queueClaim = sched.claim

\* Through overrides, halts, cancellations and restarts the running normal
\* action is paused exactly while there is override work: it is never stranded.
PausedIffPreempted == PauseFlagCorrect(sched)

\* Normal work always has an owner, and it is that owner's: no action of an
\* earlier run or of a replaced script is left in the lane for a later one.
WorkIsOwned ==
  LET work == Ids(sched.pending) \cup RunningIds(sched.running) IN
  work # {} =>
    /\ queueClaim # None
    /\ queueClaim.owner # Script =>
         actionRun # None /\ actionRun.id = queueClaim.owner /\ work \subseteq Ids(actionRun.actions)

\* A run that becomes successful by the result of one of its own actions (a
\* halt apart) has executed every action of its batch, whatever preempted it
\* and whatever restarted in between.
SuccessIsEarned ==
  [][/\ actionRun' # None /\ actionRun'.outcome = "succeeded" /\ actionRun' # actionRun
     /\ sched.running # None /\ ~\E p \in Steppers : ResultHalt(p)
     => Ids(actionRun'.actions) \subseteq SucceededIds(sched')]_vars

\* execute_result credits a result to whatever runs when it arrives.  That is
\* always the action the step was executing, or nothing.
ResultCreditsItsAction ==
  [][\A p \in Steppers :
       /\ step[p].phase = "io" /\ step'[p].phase # "io"
       /\ Len(sched'.completed) > Len(sched.completed)
       /\ sched'.completed[Len(sched.completed) + 1].outcome = "succeeded"
       => sched'.completed[Len(sched.completed) + 1].env = step[p].env]_vars

\* "The interrupt lane is checked between every executor step": no operation
\* of normal work begins while an override waits or runs.
OverridesComeFirst ==
  [][\A p \in Steppers :
       step[p].phase # "io" /\ step'[p].phase = "io" /\ InterruptBusy(sched)
       => sched'.interrupt # None /\ step'[p].env = sched'.interrupt.env]_vars
=============================================================================
