---------------------------- MODULE SessionRuns ----------------------------
(***************************************************************************)
(* The runner lifecycle of one session: prayer-sdk's registry of runners   *)
(* (active_script_runs) around the engine of RuntimeEngine.                *)
(*                                                                         *)
(* start_actions is a sequence of critical sections of three locks (the    *)
(* session, the registry, the history of runs), and so is everything it    *)
(* races with: the runner that finds nothing left and unregisters, the     *)
(* background task that starts a runner for an override, halt, cancel.     *)
(* Clients here submit typed runs and overrides; scripts, the host loop    *)
(* and restarts are RuntimeEngine's.                                       *)
(***************************************************************************)
EXTENDS RuntimeEngine

CONSTANTS MaxHalts, MaxOverrides   \* bounds: halts (calls and actions), override calls

ASSUME SessionAssumption ==
  MaxHalts \in Nat /\ MaxOverrides \in Nat /\ Hosts = {} /\ MaxBatch >= 1

VARIABLES
  registry,      \* the session's entry of active_script_runs
  runner,        \* the task that holds the ScriptRunGuard
  client,        \* how far each run's start_actions call got
  lane,          \* the claim each of them was handed
  tasks,         \* background tasks spawned and not yet run
  history,       \* action_run_history: outcomes of archived runs
  halts, overrides  \* how many there were

service == <<registry, runner, client, lane, tasks, history, halts, overrides>>
svars == <<vars, service>>

\* "sdk action run" runners are reusable and have a generation; the one of an
\* override has none.
Registrations == [kind : {"action", "override"}, generation : Nat, halted : BOOLEAN]
ASSUME NoRegistrationAssumption == None \notin Registrations
RunnerStates  == [phase : {"none", "registered", "looping", "fetched"}, generation : Nat]
ClientPhases  == {"new", "archived", "acquired", "submitted", "registering", "accepted",
                  "withdrawing", "refused"}
NoRunner == [phase |-> "none", generation |-> 0]

SessionInit ==
  /\ Init
  /\ registry = None /\ runner = NoRunner
  /\ client = [r \in Runs |-> "new"] /\ lane = [r \in Runs |-> None]
  /\ tasks = {} /\ history = [r \in Runs |-> None]
  /\ halts = 0 /\ overrides = 0

Becomes(r, phase) == client' = [client EXCEPT ![r] = phase]

\* archive_current_action_run keeps the run the engine holds, once it is over.
Archived ==
  IF actionRun # None /\ actionRun.outcome # None
  THEN [history EXCEPT ![actionRun.id] = actionRun.outcome]
  ELSE history

-----------------------------------------------------------------------------
(* start_actions. *)

ArchiveFirst(r) ==
  /\ client[r] = "new" /\ Becomes(r, "archived")
  /\ history' = Archived
  /\ UNCHANGED <<vars, registry, runner, lane, tasks, halts, overrides>>

\* Refused with LaneBusy, a client may call again.
AcquireLane(r) ==
  /\ client[r] = "archived"
  /\ UNCHANGED <<registry, runner, tasks, history, halts, overrides>>
  /\ \/ /\ AcquireRun(r)
        /\ Becomes(r, "acquired") /\ lane' = [lane EXCEPT ![r] = sched'.claim]
     \/ /\ queueClaim # None
        /\ Becomes(r, "new") /\ UNCHANGED <<vars, lane>>

\* Mutant: whoever holds a claim may submit.
SubmitUnauthorized(r) ==
  /\ client[r] = "acquired" /\ Becomes(r, "submitted")
  /\ sched' = AppendBatch(sched, Batch(1, "run", "run"))
  /\ actionRun' = [actionRun EXCEPT !.actions = Batch(1, "run", "run")]
  /\ submitted' = submitted + 1
  /\ UNCHANGED <<queueClaim, producer, step, loading, acquired>>
  /\ UNCHANGED <<registry, runner, lane, tasks, history, halts, overrides>>

\* The batch goes in under the claim the client holds, which may be stale.
Submit(r) ==
  /\ client[r] = "acquired"
  /\ UNCHANGED <<registry, runner, lane, tasks, history, halts, overrides>>
  /\ IF Authorized(sched, lane[r])
     THEN (\E n \in 1..MaxBatch : SubmitBatch(n)) /\ Becomes(r, "submitted")
     ELSE Becomes(r, "withdrawing") /\ UNCHANGED vars

\* ensure_action_runner: a registered action runner is told to look again.
EnsureRunner(r) ==
  /\ client[r] = "submitted"
  /\ IF registry # None /\ registry.kind = "action"
     THEN registry' = [registry EXCEPT !.generation = @ + 1] /\ Becomes(r, "accepted")
     ELSE /\ Becomes(r, IF registry = None THEN "registering" ELSE "withdrawing")
          /\ UNCHANGED registry
  /\ UNCHANGED <<vars, runner, lane, tasks, history, halts, overrides>>

Registered(kind) ==
  /\ registry' = [kind |-> kind, generation |-> 0, halted |-> FALSE]
  /\ runner' = [phase |-> "registered", generation |-> 0]

\* begin_script_run takes the registry anew: somebody may have come first.
RegisterActionRunner(r) ==
  /\ client[r] = "registering"
  /\ IF registry = None
     THEN Registered("action") /\ Becomes(r, "accepted")
     ELSE Becomes(r, "withdrawing") /\ UNCHANGED <<registry, runner>>
  /\ UNCHANGED <<vars, lane, tasks, history, halts, overrides>>

\* cancel_action_run: an unknown run is an error, one that is over stays so.
CancelAction(r) ==
  /\ IF actionRun.outcome = None THEN CancelRun ELSE UNCHANGED vars
  /\ history' = [history EXCEPT ![r] = actionRun'.outcome]

IsCurrent(r) == actionRun # None /\ actionRun.id = r

Withdraw(r) ==
  /\ client[r] = "withdrawing" /\ Becomes(r, "refused")
  /\ IF IsCurrent(r) THEN CancelAction(r) ELSE UNCHANGED <<vars, history>>
  /\ UNCHANGED <<registry, runner, lane, tasks, halts, overrides>>

-----------------------------------------------------------------------------
(* The other calls of clients. *)

\* ActionRunHandle::cancel.
CancelAccepted(r) ==
  /\ client[r] = "accepted" /\ IsCurrent(r) /\ CancelAction(r)
  /\ UNCHANGED <<registry, runner, client, lane, tasks, halts, overrides>>

\* halt clears the engine, and tells the runner in a second step.
HaltCall ==
  /\ halts < MaxHalts /\ "halt" \notin tasks
  /\ HaltSession
  /\ halts' = halts + 1 /\ tasks' = tasks \cup {"halt"}
  /\ UNCHANGED <<registry, runner, client, lane, history, overrides>>

NotifyHalt ==
  /\ "halt" \in tasks /\ tasks' = tasks \ {"halt"}
  /\ registry' = IF registry = None THEN None ELSE [registry EXCEPT !.halted = TRUE]
  /\ UNCHANGED <<vars, runner, client, lane, history, halts, overrides>>

OverrideCall ==
  /\ overrides < MaxOverrides /\ "override" \notin tasks
  /\ SubmitOverride(1, "client")
  /\ overrides' = overrides + 1 /\ tasks' = tasks \cup {"override"}
  /\ UNCHANGED <<registry, runner, client, lane, history, halts>>

\* The spawned task starts a runner; that one is registered is not an error.
RegisterOverrideRunner ==
  /\ "override" \in tasks /\ tasks' = tasks \ {"override"}
  /\ IF registry = None THEN Registered("override") ELSE UNCHANGED <<registry, runner>>
  /\ UNCHANGED <<vars, client, lane, history, halts, overrides>>

-----------------------------------------------------------------------------
(* The runner. *)

BeginLoop ==
  /\ runner.phase = "registered" /\ StartRunner
  /\ runner' = [runner EXCEPT !.phase = "looping"]
  /\ UNCHANGED <<registry, client, lane, tasks, history, halts, overrides>>

\* Every step begins with a refresh of the bot, which a halted runner does not
\* get through.
Prefetch ==
  /\ runner.phase = "looping" /\ step[Runner].phase = "deciding" /\ ~registry.halted
  /\ runner' = [runner EXCEPT !.phase = "fetched"]
  /\ UNCHANGED <<vars, registry, client, lane, tasks, history, halts, overrides>>

LoopDecide ==
  /\ runner.phase = "fetched" /\ Decide(Runner)
  /\ runner' = [runner EXCEPT !.phase = "looping"]
  /\ UNCHANGED <<registry, client, lane, tasks, history, halts, overrides>>

\* A result may be there before the halt is seen.
LoopEnds    == (ResultCompleted(Runner) \/ ResultFailed(Runner)) /\ UNCHANGED service
LoopApplies == (ResultPaused(Runner) \/ FailRun) /\ UNCHANGED service

LoopHaltAction ==
  /\ halts < MaxHalts /\ ResultHalt(Runner)
  /\ halts' = halts + 1
  /\ UNCHANGED <<registry, runner, client, lane, tasks, history, overrides>>

\* The halt watch or a refresh that fails.
LoopDrops ==
  /\ runner.phase = "looping" /\ DropStep(Runner)
  /\ UNCHANGED service

\* Mutant: a run whose next action has not started is taken for finished.
RunIsUnderWay ==
  /\ actionRun # None /\ actionRun.outcome = None
  /\ sched.running # None \/ InterruptBusy(sched)

\* has_unfinished_action_run.
HasUnfinishedRun ==
  /\ actionRun # None /\ actionRun.outcome = None
  /\ sched.running # None \/ sched.pending # <<>> \/ InterruptBusy(sched)

\* Mutant: the runner goes on only if it was told to.
GoesOnIfAsked == registry.kind = "action" /\ registry.generation # runner.generation

\* action_runner_should_continue, under the session's and the registry's lock.
GoesOn ==
  /\ registry.kind = "action"
  /\ HasUnfinishedRun \/ registry.generation # runner.generation

\* Mutant: the guard keeps the generation it had.
EndLoopForgets ==
  /\ runner.phase = "looping" /\ RunnerOff
  /\ IF GoesOn
     THEN runner' = [runner EXCEPT !.phase = "registered"] /\ UNCHANGED <<registry, tasks>>
     ELSE /\ registry' = None /\ runner' = NoRunner
          /\ tasks' = tasks \cup {"archive"}
  /\ UNCHANGED <<vars, client, lane, history, halts, overrides>>

EndLoop ==
  /\ runner.phase = "looping" /\ RunnerOff
  /\ IF GoesOn
     THEN /\ runner' = [phase |-> "registered", generation |-> registry.generation]
          /\ UNCHANGED <<registry, tasks>>
     ELSE /\ registry' = None /\ runner' = NoRunner
          /\ tasks' = tasks \cup {"archive"}
  /\ UNCHANGED <<vars, client, lane, history, halts, overrides>>

\* The task archives the run after its guard is gone.
ArchiveLast ==
  /\ "archive" \in tasks /\ tasks' = tasks \ {"archive"}
  /\ history' = Archived
  /\ UNCHANGED <<vars, registry, runner, client, lane, halts, overrides>>

-----------------------------------------------------------------------------
StartActions(r) ==
  ArchiveFirst(r) \/ AcquireLane(r) \/ Submit(r) \/ EnsureRunner(r)
    \/ RegisterActionRunner(r) \/ Withdraw(r)

Background == NotifyHalt \/ RegisterOverrideRunner \/ ArchiveLast

RunnerStep ==
  BeginLoop \/ Prefetch \/ LoopDecide \/ LoopEnds \/ LoopApplies \/ LoopHaltAction \/ LoopDrops \/ EndLoop

SessionNext ==
  \/ \E r \in Runs : StartActions(r) \/ CancelAccepted(r)
  \/ HaltCall \/ OverrideCall
  \/ Background
  \/ RunnerStep

SafetySpec == SessionInit /\ [][SessionNext]_svars

\* Tasks and calls that have begun are polled until they end.  A refresh may fail
\* and an operation may pause, but neither for ever.
Fairness ==
  /\ \A r \in Runs : WF_svars(StartActions(r) /\ client[r] \notin {"new", "archived"})
  /\ WF_svars(Background)
  /\ WF_svars(RunnerStep)
  /\ SF_svars(Prefetch) /\ SF_svars(LoopEnds)

LiveSpec == SafetySpec /\ Fairness

-----------------------------------------------------------------------------
(* Properties. *)

\* Every step of the service is a step of the engine, or none: whatever the
\* clients do with claims they no longer hold, the engine never sees more than
\* RuntimeEngine allows.
ImplementsEngine == Spec

\* The handshake of ensure_action_runner: work whose client was told it runs is
\* never left without a registered runner.
AcceptedWorkHasRunner ==
  sched.running # None \/ sched.pending # <<>> =>
    \/ registry # None
    \/ queueClaim # None /\ client[queueClaim.owner] # "accepted"

\* If nobody halts, whatever the other runs, the overrides, the cancellations and the
\* failing refreshes do: a run that was accepted ends, and a runner is not kept alive by
\* nothing once clients stop calling, so that a script or another runner can get in.
RunsAndRunnersEnd ==
  /\ \A r \in Runs : client[r] = "accepted" ~> ~(IsCurrent(r) /\ actionRun.outcome = None)
  /\ registry # None ~> registry = None
=============================================================================
