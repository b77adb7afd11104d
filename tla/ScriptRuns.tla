----------------------------- MODULE ScriptRuns -----------------------------
(***************************************************************************)
(* What clients are told of the runners of one session (prayer-sdk,        *)
(* ScriptRunGuard): the registration that keeps runners apart, the record  *)
(* of the current execution, and the guard that cleans up after a runner   *)
(* that goes away.                                                         *)
(*                                                                         *)
(* The registry and the session have locks of their own: a runner          *)
(* registers, and unregisters, in one critical section and writes the      *)
(* record in another.  A guard that is dropped writes the record in a task *)
(* of its own.                                                             *)
(***************************************************************************)
EXTENDS Naturals, FiniteSets

CONSTANTS
  Nobody,
  ScriptCalls, ActionCalls,   \* calls that start a script, calls that start typed actions
  RunFaults                   \* bound: halts, and futures and tasks that are dropped

ASSUME RunsAssumption == Nobody \notin ScriptCalls \cup ActionCalls

VARIABLES
  entry,      \* active_script_runs: the registered call, its generation
  call,       \* how far each call got, the execution its guard is for, its generation
  laneOf,     \* the call whose work has the lane
  record,     \* script_execution: its id, whose run it is, its state
  cleanups,   \* executions that tasks spawned by dropped guards are to look at
  runFaults,
  executed    \* history: calls whose work was done

runVars == <<entry, call, laneOf, record, cleanups, runFaults, executed>>
Calls   == ScriptCalls \cup ActionCalls
NoEntry == [call |-> Nobody, generation |-> 0]

RunsInit ==
  /\ entry = NoEntry /\ laneOf = Nobody
  /\ call = [c \in Calls |-> [phase |-> "new", execution |-> Nobody, generation |-> 0]]
  /\ record = [id |-> Nobody, run |-> Nobody, state |-> "none"]
  /\ cleanups = {} /\ runFaults = 0 /\ executed = {}

At(c, phase) == call[c].phase = phase
Goes(c, phase) == call' = [call EXCEPT ![c].phase = phase]
RunFault == runFaults < RunFaults /\ runFaults' = runFaults + 1

\* The lane is acquired first; it is refused while it is another's.
Claim(c) ==
  /\ At(c, "new") /\ laneOf = Nobody /\ laneOf' = c
  /\ Goes(c, "claimed")
  /\ UNCHANGED <<entry, record, cleanups, runFaults, executed>>

\* begin_script_run, ensure_action_runner: a registered action runner looks again.
Register(c) ==
  /\ At(c, "claimed")
  /\ IF entry = NoEntry
     THEN entry' = [call |-> c, generation |-> 0] /\ Goes(c, "registered")
     ELSE IF c \in ActionCalls /\ entry.call \in ActionCalls
     THEN entry' = [entry EXCEPT !.generation = @ + 1] /\ Goes(c, "over")
     ELSE UNCHANGED entry /\ Goes(c, "over")
  /\ UNCHANGED <<laneOf, record, cleanups, runFaults, executed>>

\* begin_script_run continues a record that is still running.
Install(c) ==
  /\ At(c, "registered")
  /\ LET run == IF laneOf \in ScriptCalls THEN laneOf ELSE Nobody
     IN record' = [record EXCEPT !.run = run, !.state = "running",
                                 !.id = IF record.state = "running" THEN @ ELSE c]
  /\ call' = [call EXCEPT ![c].phase = "looping", ![c].execution = record'.id]
  /\ UNCHANGED <<entry, laneOf, cleanups, runFaults, executed>>

\* The caller's future is dropped while it waits for the session: there is no
\* guard yet, and the registration stays.
Abandon(c) ==
  /\ At(c, "registered") /\ RunFault /\ Goes(c, "over")
  /\ UNCHANGED <<entry, laneOf, record, cleanups, executed>>

Works(c) ==
  /\ At(c, "looping") /\ laneOf # Nobody /\ laneOf' = Nobody
  /\ executed' = executed \cup {laneOf}
  /\ UNCHANGED <<entry, call, record, cleanups, runFaults>>

\* The loop of execute_script_with_wait_policy finds nothing to do.
LoopEnds(c) ==
  /\ At(c, "looping") /\ laneOf = Nobody
  /\ Goes(c, IF c \in ActionCalls THEN "asking" ELSE "ending")
  /\ UNCHANGED <<entry, laneOf, record, cleanups, runFaults, executed>>

\* action_runner_should_continue.
AsksToContinue(c) ==
  /\ At(c, "asking")
  /\ IF laneOf \in ActionCalls \/ entry.generation # call[c].generation
     THEN /\ call' = [call EXCEPT ![c].phase = "looping", ![c].generation = entry.generation]
          /\ UNCHANGED entry
     ELSE entry' = NoEntry /\ Goes(c, "released")
  /\ UNCHANGED <<laneOf, record, cleanups, runFaults, executed>>

\* Mutant: the registration is removed whosever it is.
DropGuardOfAny(c) ==
  /\ entry' = NoEntry
  /\ cleanups' = cleanups \cup {call[c].execution}
  /\ Goes(c, "over")

\* Mutant: a guard that goes does not look after the record.
DropGuardQuietly(c) ==
  /\ entry' = IF entry.call = c THEN NoEntry ELSE entry
  /\ UNCHANGED cleanups
  /\ Goes(c, "over")

\* Drop: the registration goes when it is the guard's own.
DropGuard(c) ==
  /\ entry' = IF entry.call = c THEN NoEntry ELSE entry
  /\ cleanups' = cleanups \cup {call[c].execution}
  /\ Goes(c, "over")

\* execute_script_run_after_begin settles a record that is running, whoever's it is.
Settles(c) ==
  /\ call[c].phase \in {"ending", "released"}
  /\ IF record.state = "running"
     THEN record' = [record EXCEPT !.state = "done"] ELSE UNCHANGED record
  /\ DropGuard(c)
  /\ UNCHANGED <<laneOf, runFaults, executed>>

\* The runner's task is aborted, panics, or its future is dropped.
Dies(c) ==
  /\ call[c].phase \in {"looping", "asking", "ending", "released"} /\ RunFault
  /\ DropGuard(c)
  /\ UNCHANGED <<laneOf, record, executed>>

Cleanup(e) ==
  /\ e \in cleanups /\ cleanups' = cleanups \ {e}
  /\ IF record.id = e /\ record.state = "running"
     THEN record' = [record EXCEPT !.state = "exited"] ELSE UNCHANGED record
  /\ UNCHANGED <<entry, call, laneOf, runFaults, executed>>

\* halt and cancel_script_run: whatever there is of a record is stopped.
Halt ==
  /\ RunFault /\ laneOf' = Nobody
  /\ record' = IF record.id = Nobody THEN record ELSE [record EXCEPT !.state = "stopped"]
  /\ UNCHANGED <<entry, call, cleanups, executed>>

RunnerSteps(c) ==
  Install(c) \/ Works(c) \/ LoopEnds(c) \/ AsksToContinue(c) \/ Settles(c)

RunsNext ==
  \/ \E c \in Calls : Claim(c) \/ Register(c) \/ Abandon(c) \/ RunnerSteps(c) \/ Dies(c)
  \/ (\E e \in cleanups : Cleanup(e))
  \/ Halt

\* Runners and the tasks of dropped guards are polled.
RunsFairness ==
  /\ \A c \in Calls : WF_runVars(RunnerSteps(c))
  /\ WF_runVars(\E e \in cleanups : Cleanup(e))

RunsSpec == RunsInit /\ [][RunsNext]_runVars /\ RunsFairness

-----------------------------------------------------------------------------
(* Properties. *)

\* "script already running for session": two runners never drive the session at
\* one time, whatever guards of earlier runners are dropped meanwhile.
OneRunnerPerSession ==
  Cardinality({c \in Calls : call[c].phase \in {"looping", "asking"}}) <= 1

\* A record that says "running" does not say so for ever: runners that end, die or
\* are dropped settle it, in whatever order.
RecordSettles == (record.state = "running") ~> (record.state # "running")

\* "Success" for a script says that the script was run: the outcome under a run's id
\* is never that of the runner before it.
DoneScriptsRan ==
  record.state = "done" /\ record.run # Nobody => record.run \in executed
=============================================================================
