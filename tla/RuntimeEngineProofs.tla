------------------------ MODULE RuntimeEngineProofs ------------------------
(***************************************************************************)
(* The engine's invariants, for any runs, envelopes, batches, scripts and  *)
(* host steps and any bounds.  All but the last are proved of              *)
(* NextBesideHosts and so hold with and without a host loop that steps     *)
(* beside the runner; to whom a result is credited is settled only where   *)
(* the runner steps alone.                                                 *)
(*                                                                         *)
(* Then the runner lifecycle of a session, for any runs, batches,          *)
(* overrides and halts: the service is an implementation of the engine's   *)
(* specification, from which it inherits the engine's invariants, and      *)
(* accepted work always has a runner.                                      *)
(***************************************************************************)
EXTENDS SessionRuns, SchedulerOpsProofs

\* A step in its I/O executes an envelope: what type correctness needs beside
\* itself, because the planner's continuation is made from it.
IoHasEnvelope == \A p \in Steppers : step[p].phase = "io" => step[p].env \in Envelopes

TypeInv == TypeOK /\ IoHasEnvelope

\* What type correctness says of the steps alone.
StepsTyped == step \in [Steppers -> Steps] /\ IoHasEnvelope

-----------------------------------------------------------------------------
(* Types of the building blocks. *)

LEMMA BatchType ==
  ASSUME submitted \in Nat, NEW n \in Nat, n >= 1, Available(n),
         NEW policy \in Policies, NEW last \in Policies
  PROVE  Batch(n, policy, last) \in Seq(Envelopes) /\ Batch(n, policy, last) # <<>>
<1>1. Batch(n, policy, last) \in [1..n -> Envelopes]
  BY DEF Batch, Available, Envelopes
<1>2. Batch(n, policy, last) \in Seq(Envelopes)
  BY <1>1, FunctionIsSequence
<1>3. 1 \in DOMAIN Batch(n, policy, last)
  BY <1>1
<1>4. QED
  BY <1>2, <1>3

LEMMA GotoType ==
  ASSUME StepsTyped, NEW p \in Steppers, NEW phase \in {"off", "deciding", "failing"},
         Goto(p, phase)
  PROVE  StepsTyped'
<1>1. At(phase) \in Steps /\ At(phase).phase # "io"
  BY DEF At, Steps
<1>2. QED
  BY <1>1 DEF StepsTyped, IoHasEnvelope, Goto

LEMMA ActiveContinuationType ==
  ASSUME NEW s \in SchedulerStates, NEW q \in Producers
  PROVE  ActiveContinuation(s, q) \in Continuations \cup {None}
<1>1. s.interrupt # None => s.interrupt.cont \in Continuations \cup {None}
  BY FieldTypes DEF Running
<1>2. s.running # None => s.running.cont \in Continuations \cup {None}
  BY FieldTypes DEF Running
<1>3. QED
  BY <1>1, <1>2 DEF ActiveContinuation, Producers

LEMMA StartIoType ==
  ASSUME StepsTyped, NEW p \in Steppers, NEW env \in Envelopes,
         sched' \in SchedulerStates, producer' \in Producers, StartIo(p, env)
  PROVE  StepsTyped'
<1> DEFINE k == ActiveContinuation(sched', producer')
           at == [phase |-> "io", env |-> env, cont |-> k]
<1>1. k \in Continuations \cup {None}
  BY ActiveContinuationType
<1>2. at \in Steps
  <2> HIDE DEF k
  <2> QED BY <1>1 DEF Steps
<1>3. step' = [step EXCEPT ![p] = at]
  BY DEF StartIo
<1>4. at.phase = "io" /\ at.env = env
  OBVIOUS
<1> HIDE DEF at
<1>5. QED
  BY <1>2, <1>3, <1>4 DEF StepsTyped, IoHasEnvelope

LEMMA ResultLaneType == ResultLane \in Lanes
  BY DEF ResultLane, Lanes

LEMMA PlannerContinuationsType ==
  ASSUME StepsTyped, NEW p \in Steppers, step[p].phase = "io", NEW k \in PlannerContinuations(p)
  PROVE  k \in Continuations \cup {None}
<1>1. step[p].cont \in Continuations \cup {None}
  BY DEF StepsTyped, Steps
<1>2. step[p].env.id \in Continuations
  BY EngineAssumption DEF StepsTyped, IoHasEnvelope, Envelopes
<1>3. QED
  BY <1>1, <1>2 DEF PlannerContinuations

LEMMA FrameTickedType ==
  ASSUME producer \in Producers, NEW k \in Continuations \cup {None}
  PROVE  FrameTicked(k) \in Producers
  BY DEF FrameTicked, Producers

LEMMA FrameCompletedType ==
  ASSUME producer \in Producers
  PROVE  FrameCompleted \in Producers
<1>1. FrameTicked(None) \in Producers
  BY FrameTickedType
<1>2. QED
  BY <1>1 DEF FrameCompleted, Producers

LEMMA CommandTakenType ==
  ASSUME producer \in Producers, NEW k \in Continuations \cup {None}, CommandTaken(k)
  PROVE  producer' \in Producers
<1> DEFINE i == producer.index + 1
<1>1. i \in Nat
  BY DEF Producers
<1> HIDE DEF i
<1>2. [producer EXCEPT !.index = i, !.active = k] \in Producers
  BY <1>1 DEF Producers
<1>3. QED
  BY <1>2 DEF CommandTaken, i

LEMMA EngineHaltedType ==
  ASSUME NEW s \in SchedulerStates, NEW q \in Producers, EngineHalted(s, q)
  PROVE  sched' \in SchedulerStates /\ queueClaim' = None /\ producer' \in Producers
<1>1. Halt(s) \in SchedulerStates
  BY HaltType
<1>2. QED
  BY <1>1 DEF EngineHalted, Producers

LEMMA RunSucceededType ==
  ASSUME actionRun \in ActionRuns \cup {None}, NEW s
  PROVE  RunSucceeded(s) \in ActionRuns \cup {None}
  BY DEF RunSucceeded, RunDrained, ActionRuns, RunOutcomes

LEMMA RestoredType ==
  ASSUME NEW s \in SchedulerStates
  PROVE  Restored(s) \in SchedulerStates
<1> DEFINE r == SetPaused(s.running, FALSE)
           empty == <<>>
<1>1. r \in Running \cup {None}
  BY FieldTypes, SetPausedType
<1>2. empty \in Seq(Envelopes)
  BY EmptySeq
<1> HIDE DEF r, empty
<1>3. [s EXCEPT !.interrupt = None, !.interruptPending = empty, !.running = r] \in SchedulerStates
  BY <1>1, <1>2 DEF SchedulerStates
<1>4. QED
  BY <1>3 DEF Restored, r, empty

-----------------------------------------------------------------------------
(* Type correctness, client by client and step by step. *)

LEMMA TypeInit == Init => TypeInv
<1> SUFFICES ASSUME Init
             PROVE  TypeInv
  OBVIOUS
<1>1. At("off") \in Steps /\ At("off").phase # "io"
  BY DEF At, Steps
<1>2. NoScript \in Producers
  BY DEF NoScript, Producers
<1>3. step \in [Steppers -> Steps] /\ IoHasEnvelope
  BY <1>1 DEF Init, IoHasEnvelope
<1>4. QED
  BY <1>2, <1>3, NewSchedulerType DEF Init, TypeInv, TypeOK

LEMMA TypeClients == TypeInv /\ Clients => TypeInv'
<1> SUFFICES ASSUME TypeInv, Clients
             PROVE  TypeInv'
  OBVIOUS
<1> USE DEF TypeInv, TypeOK, IoHasEnvelope
<1>1. CASE BeginSetScript
  BY <1>1 DEF BeginSetScript, engine, ledger
<1>2. ASSUME NEW len \in 0..MaxScript, SetScript(len)
      PROVE  TypeInv'
  <2>1. len \in Nat /\ Script \in Owners
    BY EngineAssumption
  <2>2. producer' \in Producers
    BY <1>2, <2>1 DEF SetScript, NoScript, Producers
  <2>3. sched' \in SchedulerStates
    BY <1>2, <2>1, NewSchedulerType, ClaimType DEF SetScript
  <2>4. queueClaim' \in QueueClaims \cup {None}
    BY <1>2, <2>3, FieldTypes DEF SetScript
  <2>5. QED
    BY <1>2, <2>2, <2>3, <2>4 DEF SetScript, ledger
<1>3. ASSUME NEW r \in Runs, AcquireRun(r)
      PROVE  TypeInv'
  <2>1. r \in Owners
    BY EngineAssumption
  <2>2. sched' \in SchedulerStates
    BY <1>3, <2>1, ClaimType DEF AcquireRun
  <2>3. queueClaim' \in QueueClaims \cup {None}
    BY <1>3, <2>2, FieldTypes DEF AcquireRun
  <2>4. actionRun' \in ActionRuns
    <3> DEFINE empty == <<>>
    <3>1. empty \in Seq(Envelopes)
      BY EmptySeq
    <3> HIDE DEF empty
    <3>2. [id |-> r, actions |-> empty, outcome |-> None] \in ActionRuns
      BY <3>1 DEF ActionRuns
    <3>3. QED
      BY <1>3, <3>2 DEF AcquireRun, empty
  <2>5. QED
    BY <1>3, <2>2, <2>3, <2>4 DEF AcquireRun
<1>4. ASSUME NEW n \in 1..MaxBatch, SubmitBatch(n)
      PROVE  TypeInv'
  <2> DEFINE b == Batch(n, "run", "run")
  <2>1. n \in Nat /\ n >= 1 /\ submitted + n \in Nat
    BY EngineAssumption
  <2>2. b \in Seq(Envelopes)
    BY <1>4, <2>1, BatchType DEF SubmitBatch, Policies
  <2>3. sched' = AppendBatch(sched, b) /\ actionRun' = [actionRun EXCEPT !.actions = b]
    BY <1>4 DEF SubmitBatch
  <2> HIDE DEF b
  <2>4. sched' \in SchedulerStates
    BY <2>2, <2>3, AppendBatchType
  <2>5. actionRun' \in ActionRuns
    BY <1>4, <2>2, <2>3 DEF SubmitBatch, ActionRuns
  <2>6. QED
    BY <1>4, <2>1, <2>4, <2>5 DEF SubmitBatch
<1>5. ASSUME NEW n \in 1..MaxBatch, NEW last \in {"client", "client_return_to_origin"},
             SubmitOverride(n, last)
      PROVE  TypeInv'
  <2>1. n \in Nat /\ n >= 1 /\ submitted + n \in Nat
    BY EngineAssumption
  <2>2. Batch(n, "client", last) \in Seq(Envelopes)
    BY <1>5, <2>1, BatchType DEF SubmitOverride, Policies
  <2>3. sched' \in SchedulerStates
    BY <1>5, <2>2, AppendInterruptsType DEF SubmitOverride
  <2>4. QED
    BY <1>5, <2>1, <2>3 DEF SubmitOverride
<1>6. CASE CancelRun
  <2>1. sched' \in SchedulerStates
    BY <1>6, CancelType DEF CancelRun
  <2>2. actionRun' \in ActionRuns
    BY <1>6 DEF CancelRun, ActionRuns, RunOutcomes
  <2>3. QED
    BY <1>6, <2>1, <2>2 DEF CancelRun, ledger
<1>7. CASE HaltSession
  BY <1>7, EngineHaltedType DEF HaltSession, ledger
<1>8. QED
  BY <1>1, <1>2, <1>3, <1>4, <1>5, <1>6, <1>7 DEF Clients

LEMMA TypeDecide ==
  ASSUME TypeInv, NEW p \in Steppers, Decide(p)
  PROVE  TypeInv'
<1> USE DEF TypeInv, TypeOK
<1>s. StepsTyped
  BY DEF StepsTyped
<1>t. StepsTyped' => step' \in [Steppers -> Steps] /\ IoHasEnvelope'
  BY DEF StepsTyped
<1>1. CASE DecideContinue(p)
  <2>1. sched' = sched /\ producer' = producer
    BY <1>1 DEF DecideContinue, engine
  <2>2. \E env \in Envelopes : StartIo(p, env)
    BY <1>1, FieldTypes DEF DecideContinue, Running
  <2>3. StepsTyped'
    BY <1>s, <2>1, <2>2, StartIoType
  <2>4. QED
    BY <1>1, <1>t, <2>3 DEF DecideContinue, engine, ledger
<1>2. CASE DecideOverride(p)
  <2> DEFINE s == ReplaceInterruptPolicy(sched, "client_return_to_origin",
                                         "client_return_to_origin_ready")
  <2>1. s \in SchedulerStates
    BY ReplaceInterruptPolicyType DEF Policies
  <2>2. CanStartInterrupt(s)
    BY <1>2, ReplaceInterruptPolicyKeepsLength DEF DecideOverride, CanStartInterrupt
  <2>3. sched' = StartInterrupt(s) /\ StartIo(p, sched'.interrupt.env)
    BY <1>2 DEF DecideOverride
  <2> HIDE DEF s
  <2>4. sched' \in SchedulerStates
    BY <2>1, <2>2, <2>3, StartInterruptType
  <2>5. sched'.interrupt.env \in Envelopes
    BY <2>1, <2>2, <2>3, StartInterruptStarts
  <2>6. producer' \in Producers
    BY <1>2 DEF DecideOverride
  <2>7. StepsTyped'
    BY <1>s, <2>3, <2>4, <2>5, <2>6, StartIoType
  <2>8. QED
    BY <1>2, <1>t, <2>4, <2>7 DEF DecideOverride, ledger
<1>3. CASE DecideTyped(p)
  <2>1. CanStartNormal(sched)
    BY <1>3 DEF DecideTyped, LaneIdle, CanStartNormal
  <2>2. sched' = StartNormal(sched) /\ StartIo(p, sched'.running.env)
    BY <1>3 DEF DecideTyped
  <2>3. sched' \in SchedulerStates /\ sched'.running.env \in Envelopes
    BY <2>1, <2>2, StartNormalType, StartNormalStarts
  <2>4. producer' \in Producers
    BY <1>3 DEF DecideTyped
  <2>5. StepsTyped'
    BY <1>s, <2>2, <2>3, <2>4, StartIoType
  <2>6. QED
    BY <1>3, <1>t, <2>3, <2>5 DEF DecideTyped, ledger
<1>4. CASE DecideTypedDrained(p)
  BY <1>4, <1>s, <1>t, GotoType DEF DecideTypedDrained, engine, ledger
<1>5. CASE DecideScript(p)
  <2> DEFINE b == Batch(1, "script", "script")
             s == AppendBatch(sched, b)
  <2>1. b \in Seq(Envelopes) /\ b # <<>>
    BY <1>5, BatchType DEF DecideScript, Policies
  <2>2. s \in SchedulerStates /\ CanStartNormal(s)
    BY <1>5, <2>1, AppendBatchType, AppendBatchStartable DEF DecideScript, LaneIdle
  <2>3. sched' = StartNext(s) /\ StartIo(p, sched'.running.env)
    BY <1>5 DEF DecideScript
  <2> HIDE DEF s
  <2>4. sched' = StartNormal(s)
    BY <2>2, <2>3 DEF StartNext, CanStartNormal, CanStartInterrupt, InterruptBusy
  <2>5. sched' \in SchedulerStates /\ sched'.running.env \in Envelopes
    BY <2>2, <2>4, StartNormalType, StartNormalStarts
  <2>6. submitted + 1 \in Continuations /\ submitted + 1 \in Nat
    BY <1>5, EngineAssumption DEF DecideScript, Available
  <2>7. producer' \in Producers
    BY <1>5, <2>6, CommandTakenType DEF DecideScript
  <2>8. StepsTyped'
    BY <1>s, <2>3, <2>5, <2>7, StartIoType
  <2>9. QED
    BY <1>5, <1>t, <2>5, <2>6, <2>7, <2>8 DEF DecideScript
<1>6. CASE DecideScriptComplete(p)
  <2>1. sched' \in SchedulerStates
    BY <1>6, InvalidateType DEF DecideScriptComplete, Release
  <2>2. producer' \in Producers
    BY <1>6 DEF DecideScriptComplete, Producers
  <2>3. StepsTyped'
    BY <1>6, <1>s, GotoType DEF DecideScriptComplete
  <2>4. QED
    BY <1>6, <1>t, <2>1, <2>2, <2>3 DEF DecideScriptComplete, ledger
<1>7. CASE DecideScriptFails(p)
  <2>1. producer' \in Producers
    <3>1. Available(1) => submitted + 1 \in Continuations
      BY EngineAssumption DEF Available
    <3>2. QED
      BY <1>7, <3>1, CommandTakenType DEF DecideScriptFails
  <2>2. StepsTyped'
    BY <1>7, <1>s, GotoType DEF DecideScriptFails, StepError
  <2>3. QED
    BY <1>7, <1>t, <2>1, <2>2 DEF DecideScriptFails, ledger
<1>8. QED
  BY <1>1, <1>2, <1>3, <1>4, <1>5, <1>6, <1>7 DEF Decide

LEMMA TypeApply ==
  ASSUME TypeInv, NEW p \in Steppers, Apply(p)
  PROVE  TypeInv'
<1> USE DEF TypeInv, TypeOK
<1>s. StepsTyped
  BY DEF StepsTyped
<1>t. StepsTyped' => step' \in [Steppers -> Steps] /\ IoHasEnvelope'
  BY DEF StepsTyped
<1>l. ResultLane \in Lanes /\ "succeeded" \in Outcomes
  BY ResultLaneType DEF Outcomes
<1>c. Complete(sched, ResultLane, "succeeded") \in SchedulerStates
  BY <1>l, CompleteType
<1>1. CASE ResultPaused(p)
  <2>1. PICK k \in PlannerContinuations(p) : sched' = Ticked(k) /\ producer' = FrameTicked(k)
    BY <1>1 DEF ResultPaused
  <2>2. k \in Continuations \cup {None}
    BY <1>1, <1>s, PlannerContinuationsType DEF ResultPaused
  <2>3. sched' \in SchedulerStates /\ producer' \in Producers
    BY <1>l, <2>1, <2>2, SetContinuationType, FrameTickedType DEF Ticked
  <2>4. StepsTyped'
    BY <1>1, <1>s, GotoType DEF ResultPaused, NextStep
  <2>5. QED
    BY <1>1, <1>t, <2>3, <2>4 DEF ResultPaused, ledger
<1>2. CASE ResultCompleted(p)
  <2> DEFINE s == Complete(sched, ResultLane, "succeeded")
  <2>1. sched' \in SchedulerStates
    BY <1>2, <1>c, InvalidateType DEF ResultCompleted, Release
  <2>2. queueClaim' \in QueueClaims \cup {None}
    BY <1>2 DEF ResultCompleted
  <2>3. actionRun' \in ActionRuns \cup {None}
    BY <1>2, RunSucceededType DEF ResultCompleted
  <2>4. producer' \in Producers
    BY <1>2, FrameCompletedType DEF ResultCompleted
  <2>5. StepsTyped'
    BY <1>2, <1>s, GotoType DEF ResultCompleted, NextStep
  <2>6. QED
    BY <1>2, <1>t, <2>1, <2>2, <2>3, <2>4, <2>5 DEF ResultCompleted, ledger
<1>3. CASE ResultHalt(p)
  <2>1. PICK s \in SchedulerStates : EngineHalted(s, FrameCompleted)
    BY <1>3, <1>c, HaltType DEF ResultHalt
  <2>2. sched' \in SchedulerStates /\ queueClaim' = None /\ producer' \in Producers
    BY <2>1, FrameCompletedType, EngineHaltedType
  <2>3. actionRun' \in ActionRuns \cup {None}
    BY <1>3, RunSucceededType DEF ResultHalt
  <2>4. StepsTyped'
    BY <1>3, <1>s, GotoType DEF ResultHalt, NextStep
  <2>5. QED
    BY <1>3, <1>t, <2>2, <2>3, <2>4 DEF ResultHalt, ledger
<1>4. CASE ResultFailed(p)
  <2>1. PICK k \in PlannerContinuations(p) : EngineHalted(Ticked(k), FrameTicked(k))
    BY <1>4 DEF ResultFailed
  <2>2. k \in Continuations \cup {None}
    BY <1>4, <1>s, PlannerContinuationsType DEF ResultFailed
  <2>3. Ticked(k) \in SchedulerStates /\ FrameTicked(k) \in Producers
    BY <1>l, <2>2, SetContinuationType, FrameTickedType DEF Ticked
  <2>4. sched' \in SchedulerStates /\ queueClaim' = None /\ producer' \in Producers
    BY <2>1, <2>3, EngineHaltedType
  <2>5. StepsTyped'
    BY <1>4, <1>s, GotoType DEF ResultFailed, StepError
  <2>6. QED
    BY <1>4, <1>t, <2>4, <2>5 DEF ResultFailed, ledger
<1>5. QED
  BY <1>1, <1>2, <1>3, <1>4 DEF Apply

LEMMA TypeOthers ==
  ASSUME TypeInv,
         \/ StartRunner
         \/ \E h \in Hosts : StartHostStep(h)
         \/ \E p \in Steppers : DropStep(p)
         \/ FailRun \/ Restart \/ UNCHANGED vars
  PROVE  TypeInv'
<1> USE DEF TypeInv, TypeOK
<1>s. StepsTyped
  BY DEF StepsTyped
<1>t. StepsTyped' => step' \in [Steppers -> Steps] /\ IoHasEnvelope'
  BY DEF StepsTyped
<1>r. Runner \in Steppers /\ Hosts \subseteq Steppers
  BY DEF Steppers
<1>1. CASE StartRunner
  BY <1>1, <1>s, <1>t, <1>r, GotoType DEF StartRunner, engine, ledger
<1>2. ASSUME NEW h \in Hosts, StartHostStep(h)
      PROVE  TypeInv'
  BY <1>2, <1>s, <1>t, <1>r, GotoType DEF StartHostStep, engine, ledger
<1>3. ASSUME NEW p \in Steppers, DropStep(p)
      PROVE  TypeInv'
  BY <1>3, <1>s, <1>t, GotoType DEF DropStep, engine, ledger
<1>4. CASE FailRun
  <2>1. StepsTyped'
    BY <1>4, <1>s, <1>r, GotoType DEF FailRun
  <2>2. CASE actionRun # None /\ actionRun.outcome = None
    <3>1. actionRun' \in ActionRuns
      BY <1>4, <2>2 DEF FailRun, ActionRuns, RunOutcomes
    <3>2. sched' \in SchedulerStates /\ queueClaim' = None /\ producer' \in Producers
      BY <1>4, <2>2, EngineHaltedType DEF FailRun
    <3>3. QED
      BY <1>4, <1>t, <2>1, <3>1, <3>2 DEF FailRun, ledger
  <2>3. CASE ~(actionRun # None /\ actionRun.outcome = None)
    BY <1>4, <1>t, <2>1, <2>3 DEF FailRun, engine, ledger
  <2>4. QED
    BY <2>2, <2>3
<1>5. CASE Restart
  <2>1. sched' \in SchedulerStates
    BY <1>5, RestoredType DEF Restart
  <2>2. producer' \in Producers
    BY <1>5 DEF Restart, NoScript, Producers
  <2>3. step' \in [Steppers -> Steps] /\ IoHasEnvelope'
    <3>1. At("off") \in Steps /\ At("off").phase # "io"
      BY DEF At, Steps
    <3>2. QED
      BY <1>5, <3>1 DEF Restart, IoHasEnvelope
  <2>4. QED
    BY <1>5, <2>1, <2>2, <2>3 DEF Restart, ledger
<1>6. CASE UNCHANGED vars
  BY <1>6 DEF vars, engine, ledger, IoHasEnvelope
<1>7. QED
  BY <1>1, <1>2, <1>3, <1>4, <1>5, <1>6

LEMMA TypeStep == TypeInv /\ [NextBesideHosts]_vars => TypeInv'
  BY TypeClients, TypeDecide, TypeApply, TypeOthers DEF NextBesideHosts, Next

LEMMA TypeInvariant == SpecBesideHosts => []TypeInv
  BY TypeInit, TypeStep, PTL DEF SpecBesideHosts

\* A session whose host loop stays away is a special case.
LEMMA SpecIsSpecBesideHosts == Spec => SpecBesideHosts
<1>1. [Next]_vars => [NextBesideHosts]_vars
  BY DEF NextBesideHosts
<1>2. QED
  BY <1>1, PTL DEF Spec, SpecBesideHosts

\* The engine's state always has the shape of its Rust types.
THEOREM TypeCorrect == Spec => []TypeOK
<1>1. TypeInv => TypeOK
  BY DEF TypeInv
<1>2. QED
  BY <1>1, TypeInvariant, SpecIsSpecBesideHosts, PTL

-----------------------------------------------------------------------------
(* Who owns the lane: the engine's claim is the scheduler's. *)

\* What the operators do to the claim.
LEMMA ClaimFields ==
  ASSUME NEW s \in SchedulerStates
  PROVE  /\ Invalidate(s).claim = None
         /\ Cancel(s).claim = None
         /\ Halt(s).claim = None
         /\ Restored(s).claim = s.claim
         /\ \A batch : AppendBatch(s, batch).claim = s.claim
         /\ \A batch : AppendInterrupts(s, batch).claim = s.claim
         /\ \A old, new : ReplaceInterruptPolicy(s, old, new).claim = s.claim
         /\ StartInterrupt(s).claim = s.claim
         /\ StartNormal(s).claim = s.claim
         /\ \A which, k : SetContinuation(s, which, k).claim = s.claim
         /\ \A which, outcome : Complete(s, which, outcome).claim = s.claim
<1> USE DEF SchedulerStates
<1>1. Invalidate(s).claim = None /\ Cancel(s).claim = None /\ Halt(s).claim = None
  BY DEF Invalidate, Cancel, Halt
<1>2. Restored(s).claim = s.claim
  BY DEF Restored
<1>3. ASSUME NEW batch
      PROVE  AppendBatch(s, batch).claim = s.claim /\ AppendInterrupts(s, batch).claim = s.claim
  <2> DEFINE q == s.pending \o batch
             i == s.interruptPending \o batch
  <2> HIDE DEF q, i
  <2>1. [s EXCEPT !.pending = q].claim = s.claim
    OBVIOUS
  <2>2. [s EXCEPT !.interruptPending = i, !.running = SetPaused(@, TRUE)].claim = s.claim
    OBVIOUS
  <2>3. QED
    BY <2>1, <2>2 DEF AppendBatch, AppendInterrupts, q, i
<1>4. \A old, new : ReplaceInterruptPolicy(s, old, new).claim = s.claim
  BY DEF ReplaceInterruptPolicy
<1>5. StartInterrupt(s).claim = s.claim /\ StartNormal(s).claim = s.claim
  BY DEF StartInterrupt, StartNormal
<1>6. \A which, k : SetContinuation(s, which, k).claim = s.claim
  BY DEF SetContinuation
<1>7. \A which, outcome : Complete(s, which, outcome).claim = s.claim
  BY DEF Complete, CompleteNormal, CompleteInterrupt
<1>8. QED
  BY <1>1, <1>2, <1>3, <1>4, <1>5, <1>6, <1>7

LEMMA ClaimAgreementStep == TypeInv /\ ClaimAgreement /\ [NextBesideHosts]_vars => ClaimAgreement'
<1> SUFFICES ASSUME TypeInv, ClaimAgreement, [NextBesideHosts]_vars
             PROVE  ClaimAgreement'
  OBVIOUS
<1> USE DEF ClaimAgreement
<1>s. sched \in SchedulerStates
  BY DEF TypeInv, TypeOK
<1>1. CASE Clients
  <2>1. CASE BeginSetScript
    BY <2>1 DEF BeginSetScript, engine
  <2>2. ASSUME NEW len \in 0..MaxScript, SetScript(len)
        PROVE  ClaimAgreement'
    BY <2>2 DEF SetScript
  <2>3. ASSUME NEW r \in Runs, AcquireRun(r)
        PROVE  ClaimAgreement'
    BY <2>3 DEF AcquireRun
  <2>4. ASSUME NEW n \in 1..MaxBatch, SubmitBatch(n)
        PROVE  ClaimAgreement'
    BY <2>4, <1>s, ClaimFields DEF SubmitBatch
  <2>5. ASSUME NEW n \in 1..MaxBatch, NEW last \in {"client", "client_return_to_origin"},
               SubmitOverride(n, last)
        PROVE  ClaimAgreement'
    BY <2>5, <1>s, ClaimFields DEF SubmitOverride
  <2>6. CASE CancelRun
    BY <2>6, <1>s, ClaimFields DEF CancelRun, Authorized
  <2>7. CASE HaltSession
    BY <2>7, <1>s, ClaimFields DEF HaltSession, EngineHalted
  <2>8. QED
    BY <1>1, <2>1, <2>2, <2>3, <2>4, <2>5, <2>6, <2>7 DEF Clients
<1>2. ASSUME NEW p \in Steppers, Decide(p)
      PROVE  ClaimAgreement'
  <2>1. CASE DecideContinue(p) \/ DecideTypedDrained(p) \/ DecideScriptFails(p)
    BY <2>1 DEF DecideContinue, DecideTypedDrained, DecideScriptFails, engine
  <2>2. CASE DecideOverride(p)
    <3>1. ReplaceInterruptPolicy(sched, "client_return_to_origin", "client_return_to_origin_ready")
            \in SchedulerStates
      BY <1>s, ReplaceInterruptPolicyType DEF Policies
    <3>2. QED
      BY <2>2, <1>s, <3>1, ClaimFields DEF DecideOverride
  <2>3. CASE DecideTyped(p)
    BY <2>3, <1>s, ClaimFields DEF DecideTyped
  <2>4. CASE DecideScript(p)
    <3> DEFINE s == AppendBatch(sched, Batch(1, "script", "script"))
    <3>1. s \in SchedulerStates
      BY <2>4, <1>s, BatchType, AppendBatchType DEF DecideScript, Policies, TypeInv, TypeOK
    <3>2. s.claim = sched.claim
      BY <1>s, ClaimFields
    <3>3. sched' = StartNext(s) /\ queueClaim' = queueClaim
      BY <2>4 DEF DecideScript
    <3> HIDE DEF s
    <3>4. QED
      BY <3>1, <3>2, <3>3, ClaimFields DEF StartNext
  <2>5. CASE DecideScriptComplete(p)
    BY <2>5, <1>s, ClaimFields DEF DecideScriptComplete, Release
  <2>6. QED
    BY <1>2, <2>1, <2>2, <2>3, <2>4, <2>5 DEF Decide
<1>3. ASSUME NEW p \in Steppers, Apply(p)
      PROVE  ClaimAgreement'
  <2> DEFINE s == Complete(sched, ResultLane, "succeeded")
  <2>c. s \in SchedulerStates /\ s.claim = sched.claim
    BY <1>s, ResultLaneType, CompleteType, ClaimFields DEF Outcomes
  <2>1. CASE ResultPaused(p)
    BY <2>1, <1>s, ClaimFields DEF ResultPaused, Ticked
  <2>2. CASE ResultCompleted(p)
    <3>1. /\ sched' = IF RunDrained(s) /\ queueClaim # None THEN Release(s) ELSE s
          /\ queueClaim' = IF RunDrained(s) THEN None ELSE queueClaim
      BY <2>2 DEF ResultCompleted
    <3> HIDE DEF s
    <3>2. QED
      BY <3>1, <2>c, ClaimFields DEF Release
  <2>3. CASE ResultHalt(p)
    <3>1. Halt(s) \in SchedulerStates
      BY <2>c, HaltType
    <3>2. sched' = Halt(Halt(s)) /\ queueClaim' = None
      BY <2>3 DEF ResultHalt, EngineHalted
    <3> HIDE DEF s
    <3>3. QED
      BY <3>1, <3>2, ClaimFields
  <2>4. CASE ResultFailed(p)
    <3>1. PICK k \in PlannerContinuations(p) : EngineHalted(Ticked(k), FrameTicked(k))
      BY <2>4 DEF ResultFailed
    <3>2. k \in Continuations \cup {None}
      BY <2>4, PlannerContinuationsType DEF ResultFailed, StepsTyped, TypeInv, TypeOK
    <3>3. Ticked(k) \in SchedulerStates
      BY <1>s, <3>2, ResultLaneType, SetContinuationType DEF Ticked
    <3>4. QED
      BY <3>1, <3>3, ClaimFields DEF EngineHalted
  <2>5. QED
    BY <1>3, <2>1, <2>2, <2>3, <2>4 DEF Apply
<1>4. CASE StartRunner \/ \E h \in Hosts : StartHostStep(h)
  BY <1>4 DEF StartRunner, StartHostStep, engine
<1>5. ASSUME NEW p \in Steppers, DropStep(p)
      PROVE  ClaimAgreement'
  BY <1>5 DEF DropStep, engine
<1>6. CASE FailRun
  BY <1>6, <1>s, ClaimFields DEF FailRun, EngineHalted, engine
<1>7. CASE Restart
  BY <1>7, <1>s, ClaimFields DEF Restart
<1>8. CASE UNCHANGED vars
  BY <1>8 DEF vars, engine
<1>9. QED
  BY <1>1, <1>2, <1>3, <1>4, <1>5, <1>6, <1>7, <1>8 DEF NextBesideHosts, Next

LEMMA ClaimAgreementInvariant == SpecBesideHosts => []ClaimAgreement
<1>1. Init => ClaimAgreement
  BY DEF Init, NewScheduler, ClaimAgreement
<1>2. QED
  BY <1>1, ClaimAgreementStep, TypeInvariant, PTL DEF SpecBesideHosts

\* The engine and its scheduler never disagree on the owner of the lane, so a
\* release or a cancellation is never refused and any checkpoint can be restored.
THEOREM ClaimsAgree == Spec => []ClaimAgreement
  BY ClaimAgreementInvariant, SpecIsSpecBesideHosts, PTL

-----------------------------------------------------------------------------
(* Preemption. *)

LEMMA NewSchedulerFlag == PauseFlagCorrect(NewScheduler)
  BY DEF NewScheduler, PauseFlagCorrect

\* A restart drops the override lane and resumes the normal action.
LEMMA RestoredFlag ==
  ASSUME NEW s \in SchedulerStates
  PROVE  PauseFlagCorrect(Restored(s))
<1> DEFINE t == Restored(s)
<1>1. /\ t.running = SetPaused(s.running, FALSE)
      /\ t.interrupt = None /\ t.interruptPending = <<>>
  BY DEF Restored, SchedulerStates
<1>2. ~InterruptBusy(t)
  BY <1>1 DEF InterruptBusy
<1>3. QED
  BY <1>1, <1>2, FieldTypes, SetPausedFlag DEF PauseFlagCorrect

LEMMA PauseStep ==
  TypeInv /\ PausedIffPreempted /\ [NextBesideHosts]_vars => PausedIffPreempted'
<1> SUFFICES ASSUME TypeInv, PausedIffPreempted, [NextBesideHosts]_vars
             PROVE  PauseFlagCorrect(sched')
  BY DEF PausedIffPreempted
<1>s. sched \in SchedulerStates /\ PauseFlagCorrect(sched)
  BY DEF TypeInv, TypeOK, PausedIffPreempted
<1>1. CASE Clients
  <2>1. CASE BeginSetScript
    BY <2>1, <1>s DEF BeginSetScript, engine
  <2>2. ASSUME NEW len \in 0..MaxScript, SetScript(len)
        PROVE  PauseFlagCorrect(sched')
    BY <2>2, NewSchedulerType, NewSchedulerFlag, ClaimFlag DEF SetScript
  <2>3. ASSUME NEW r \in Runs, AcquireRun(r)
        PROVE  PauseFlagCorrect(sched')
    BY <2>3, <1>s, ClaimFlag DEF AcquireRun
  <2>4. ASSUME NEW n \in 1..MaxBatch, SubmitBatch(n)
        PROVE  PauseFlagCorrect(sched')
    BY <2>4, <1>s, AppendBatchFlag DEF SubmitBatch
  <2>5. ASSUME NEW n \in 1..MaxBatch, NEW last \in {"client", "client_return_to_origin"},
               SubmitOverride(n, last)
        PROVE  PauseFlagCorrect(sched')
    <3>1. n \in Nat /\ n >= 1 /\ submitted \in Nat
      BY EngineAssumption DEF TypeInv, TypeOK
    <3>2. Batch(n, "client", last) \in Seq(Envelopes) /\ Batch(n, "client", last) # <<>>
      BY <2>5, <3>1, BatchType DEF SubmitOverride, Policies
    <3>3. QED
      BY <2>5, <1>s, <3>2, AppendInterruptsFlag DEF SubmitOverride
  <2>6. CASE CancelRun
    BY <2>6, <1>s, CancelFlag DEF CancelRun
  <2>7. CASE HaltSession
    BY <2>7, <1>s, HaltFlag DEF HaltSession, EngineHalted
  <2>8. QED
    BY <1>1, <2>1, <2>2, <2>3, <2>4, <2>5, <2>6, <2>7 DEF Clients
<1>2. ASSUME NEW p \in Steppers, Decide(p)
      PROVE  PauseFlagCorrect(sched')
  <2>1. CASE DecideContinue(p) \/ DecideTypedDrained(p) \/ DecideScriptFails(p)
    BY <2>1, <1>s DEF DecideContinue, DecideTypedDrained, DecideScriptFails, engine
  <2>2. CASE DecideOverride(p)
    <3> DEFINE s == ReplaceInterruptPolicy(sched, "client_return_to_origin",
                                           "client_return_to_origin_ready")
    <3>1. s \in SchedulerStates /\ PauseFlagCorrect(s)
      BY <1>s, ReplaceInterruptPolicyType, ReplaceInterruptPolicyFlag DEF Policies
    <3>2. CanStartInterrupt(s)
      BY <2>2, <1>s, ReplaceInterruptPolicyKeepsLength DEF DecideOverride, CanStartInterrupt
    <3>3. sched' = StartInterrupt(s)
      BY <2>2 DEF DecideOverride
    <3> HIDE DEF s
    <3>4. QED
      BY <3>1, <3>2, <3>3, StartNextFlag DEF StartNext
  <2>3. CASE DecideTyped(p)
    BY <2>3, <1>s, StartNextFlag
       DEF DecideTyped, LaneIdle, StartNext, CanStartNormal, CanStartInterrupt, InterruptBusy
  <2>4. CASE DecideScript(p)
    <3>1. Batch(1, "script", "script") \in Seq(Envelopes)
      BY <2>4, BatchType DEF DecideScript, Policies, TypeInv, TypeOK
    <3>2. QED
      BY <2>4, <1>s, <3>1, AppendBatchType, AppendBatchFlag, StartNextFlag DEF DecideScript
  <2>5. CASE DecideScriptComplete(p)
    BY <2>5, <1>s, InvalidateFlag DEF DecideScriptComplete, Release
  <2>6. QED
    BY <1>2, <2>1, <2>2, <2>3, <2>4, <2>5 DEF Decide
<1>3. ASSUME NEW p \in Steppers, Apply(p)
      PROVE  PauseFlagCorrect(sched')
  <2> DEFINE s == Complete(sched, ResultLane, "succeeded")
  <2>c. s \in SchedulerStates /\ PauseFlagCorrect(s)
    BY <1>s, ResultLaneType, CompleteType, CompleteFlag DEF Outcomes
  <2>1. CASE ResultPaused(p)
    <3>1. PICK k \in PlannerContinuations(p) : sched' = Ticked(k)
      BY <2>1 DEF ResultPaused
    <3>2. k \in Continuations \cup {None}
      BY <2>1, PlannerContinuationsType DEF ResultPaused, StepsTyped, TypeInv, TypeOK
    <3>3. QED
      BY <1>s, <3>1, <3>2, SetContinuationFlag DEF Ticked
  <2>2. CASE ResultCompleted(p)
    <3>1. sched' = Release(s) \/ sched' = s
      BY <2>2 DEF ResultCompleted
    <3>2. QED
      BY <2>c, <3>1, InvalidateFlag DEF Release
  <2>3. CASE ResultHalt(p)
    <3>1. Halt(s) \in SchedulerStates /\ sched' = Halt(Halt(s))
      BY <2>3, <2>c, HaltType DEF ResultHalt, EngineHalted
    <3>2. QED
      BY <3>1, HaltFlag
  <2>4. CASE ResultFailed(p)
    <3>1. PICK k \in PlannerContinuations(p) : sched' = Halt(Ticked(k))
      BY <2>4 DEF ResultFailed, EngineHalted
    <3>2. k \in Continuations \cup {None}
      BY <2>4, PlannerContinuationsType DEF ResultFailed, StepsTyped, TypeInv, TypeOK
    <3>3. Ticked(k) \in SchedulerStates
      BY <1>s, <3>2, ResultLaneType, SetContinuationType DEF Ticked
    <3>4. QED
      BY <3>1, <3>3, HaltFlag
  <2>5. QED
    BY <1>3, <2>1, <2>2, <2>3, <2>4 DEF Apply
<1>4. CASE StartRunner \/ \E h \in Hosts : StartHostStep(h)
  BY <1>4, <1>s DEF StartRunner, StartHostStep, engine
<1>5. ASSUME NEW p \in Steppers, DropStep(p)
      PROVE  PauseFlagCorrect(sched')
  BY <1>5, <1>s DEF DropStep, engine
<1>6. CASE FailRun
  BY <1>6, <1>s, HaltFlag DEF FailRun, EngineHalted, engine
<1>7. CASE Restart
  BY <1>7, <1>s, RestoredFlag DEF Restart
<1>8. CASE UNCHANGED vars
  BY <1>8, <1>s DEF vars, engine
<1>9. QED
  BY <1>1, <1>2, <1>3, <1>4, <1>5, <1>6, <1>7, <1>8 DEF NextBesideHosts, Next

LEMMA PauseFlagInvariant == SpecBesideHosts => []PausedIffPreempted
<1>1. Init => PausedIffPreempted
  BY NewSchedulerFlag DEF Init, PausedIffPreempted
<1>2. QED
  BY <1>1, PauseStep, TypeInvariant, PTL DEF SpecBesideHosts

\* Through overrides, cancellations, halts, script loads and restarts the running
\* normal action is paused exactly while there is override work.
THEOREM PauseFlagKept == Spec => []PausedIffPreempted
  BY PauseFlagInvariant, SpecIsSpecBesideHosts, PTL

-----------------------------------------------------------------------------
(* Overrides go first. *)

\* No operation of normal work begins while an override waits or runs.
THEOREM OverridesGoFirst == Spec => OverridesComeFirst
<1>1. TypeInv /\ [NextBesideHosts]_vars
        => [\A p \in Steppers :
              step[p].phase # "io" /\ step'[p].phase = "io" /\ InterruptBusy(sched)
              => sched'.interrupt # None /\ step'[p].env = sched'.interrupt.env]_vars
  <2> SUFFICES ASSUME TypeInv, NextBesideHosts, NEW p \in Steppers,
                      step[p].phase # "io", step'[p].phase = "io", InterruptBusy(sched)
               PROVE  sched'.interrupt # None /\ step'[p].env = sched'.interrupt.env
    OBVIOUS
  <2>s. sched \in SchedulerStates /\ step \in [Steppers -> Steps]
    BY DEF TypeInv, TypeOK
  <2>g. ASSUME NEW q \in Steppers, NEW phase \in {"off", "deciding", "failing"}, Goto(q, phase)
        PROVE  FALSE
    BY <2>g, <2>s DEF Goto, At
  <2>i. ASSUME NEW q \in Steppers, NEW env, StartIo(q, env)
        PROVE  p = q /\ step'[p].env = env
    BY <2>i, <2>s DEF StartIo
  <2>r. Runner \in Steppers /\ Hosts \subseteq Steppers
    BY DEF Steppers
  <2>1. CASE Clients
    BY <2>1 DEF Clients, BeginSetScript, SetScript, AcquireRun, SubmitBatch, SubmitOverride,
                CancelRun, HaltSession
  <2>2. ASSUME NEW q \in Steppers, Decide(q)
        PROVE  sched'.interrupt # None /\ step'[p].env = sched'.interrupt.env
    <3>1. CASE DecideContinue(q)
      BY <2>i, <3>1 DEF DecideContinue, engine
    <3>2. CASE DecideOverride(q)
      <4> DEFINE s == ReplaceInterruptPolicy(sched, "client_return_to_origin",
                                             "client_return_to_origin_ready")
      <4>1. s \in SchedulerStates /\ CanStartInterrupt(s)
        BY <3>2, <2>s, ReplaceInterruptPolicyType, ReplaceInterruptPolicyKeepsLength
           DEF DecideOverride, CanStartInterrupt, Policies
      <4>2. sched' = StartInterrupt(s) /\ StartIo(q, sched'.interrupt.env)
        BY <3>2 DEF DecideOverride
      <4> HIDE DEF s
      <4>3. sched'.interrupt # None
        BY <4>1, <4>2, StartInterruptStarts, StartedIsRunning, FieldTypes DEF CanStartInterrupt
      <4>4. QED
        BY <2>i, <4>2, <4>3
    <3>3. CASE DecideTyped(q) \/ DecideScript(q)
      BY <3>3 DEF DecideTyped, DecideScript, LaneIdle
    <3>4. CASE DecideTypedDrained(q) \/ DecideScriptComplete(q) \/ DecideScriptFails(q)
      BY <2>g, <3>4 DEF DecideTypedDrained, DecideScriptComplete, DecideScriptFails, StepError
    <3>5. QED
      BY <2>2, <3>1, <3>2, <3>3, <3>4 DEF Decide
  <2>3. ASSUME NEW q \in Steppers, Apply(q)
        PROVE  FALSE
    BY <2>3, <2>g DEF Apply, ResultPaused, ResultCompleted, ResultHalt, ResultFailed, NextStep,
                      StepError
  <2>4. CASE StartRunner \/ (\E h \in Hosts : StartHostStep(h)) \/ FailRun
             \/ \E q \in Steppers : DropStep(q)
    BY <2>4, <2>g, <2>r DEF StartRunner, StartHostStep, FailRun, DropStep
  <2>5. CASE Restart
    BY <2>5 DEF Restart, At
  <2>6. QED
    BY <2>1, <2>2, <2>3, <2>4, <2>5 DEF NextBesideHosts, Next
<1>2. SpecBesideHosts => OverridesComeFirst
  BY <1>1, TypeInvariant, PTL DEF SpecBesideHosts, OverridesComeFirst
<1>3. QED
  BY <1>2, SpecIsSpecBesideHosts, PTL

-----------------------------------------------------------------------------
(* Whose work is in the lane. *)

Work(s) == Ids(s.pending) \cup RunningIds(s.running)

\* What a client that holds a run's claim can rely on: the engine's run is its
\* run; and a script's statements pass through the queue one at a time.
OwnerKnown ==
  queueClaim # None /\ queueClaim.owner # Script
    => actionRun # None /\ actionRun.id = queueClaim.owner

ScriptQueueEmpty == actionRun = None => sched.pending = <<>>

OwnershipInv == WorkIsOwned /\ OwnerKnown /\ ScriptQueueEmpty

\* Setting the flag or the continuation of a slot does not change what is in it.
LEMMA SlotIds ==
  ASSUME NEW r \in Running \cup {None}
  PROVE  /\ \A b \in BOOLEAN : RunningIds(SetPaused(r, b)) = RunningIds(r)
         /\ \A k \in Continuations \cup {None} :
              r # None => RunningIds([r EXCEPT !.cont = k]) = RunningIds(r)
<1>1. CASE r = None
  BY <1>1 DEF SetPaused
<1>2. CASE r \in Running
  <2>1. r # None
    BY <1>2, NoneAssumption
  <2>2. ASSUME NEW b \in BOOLEAN
        PROVE  RunningIds(SetPaused(r, b)) = RunningIds(r)
    <3>1. SetPaused(r, b) = [r EXCEPT !.paused = b]
      BY <2>1 DEF SetPaused
    <3>2. [r EXCEPT !.paused = b] \in Running /\ [r EXCEPT !.paused = b].env = r.env
      BY <1>2 DEF Running
    <3>3. QED
      BY <2>1, <3>1, <3>2, NoneAssumption DEF RunningIds
  <2>3. ASSUME NEW k \in Continuations \cup {None}
        PROVE  RunningIds([r EXCEPT !.cont = k]) = RunningIds(r)
    <3>1. [r EXCEPT !.cont = k] \in Running /\ [r EXCEPT !.cont = k].env = r.env
      BY <1>2 DEF Running
    <3>2. QED
      BY <2>1, <3>1, NoneAssumption DEF RunningIds
  <2>4. QED
    BY <2>2, <2>3
<1>3. QED
  BY <1>1, <1>2

\* A run that exists is told from none by its type.
LEMMA RunIsNotNone ==
  ASSUME NEW id \in Runs, NEW q \in Seq(Envelopes), NEW o \in RunOutcomes \cup {None}
  PROVE  [id |-> id, actions |-> q, outcome |-> o] # None
  BY NoRunAssumption DEF ActionRuns

LEMMA RunChangedIsNotNone ==
  ASSUME NEW run \in ActionRuns
  PROVE  /\ run # None
         /\ \A q \in Seq(Envelopes) : [run EXCEPT !.actions = q] # None
         /\ \A o \in RunOutcomes : [run EXCEPT !.outcome = o] # None
  BY NoRunAssumption DEF ActionRuns

LEMMA NoIds == Ids(<<>>) = {} /\ RunningIds(None) = {}
  BY DEF Ids, RunningIds

LEMMA ConcatIds ==
  ASSUME NEW q \in Seq(Envelopes), NEW b \in Seq(Envelopes)
  PROVE  Ids(q \o b) = Ids(q) \cup Ids(b)
<1> DEFINE c == q \o b
<1>1. c \in Seq(Envelopes) /\ Len(c) = Len(q) + Len(b)
  BY ConcatProperties
<1>2. \A i \in DOMAIN q : i \in DOMAIN c /\ c[i] = q[i]
  BY <1>1, ConcatProperties
<1>3. \A i \in DOMAIN b : Len(q) + i \in DOMAIN c /\ c[Len(q) + i] = b[i]
  BY <1>1, ConcatProperties
<1>4. \A i \in DOMAIN c : i \in DOMAIN q \/ (i - Len(q) \in DOMAIN b /\ c[i] = b[i - Len(q)])
  BY <1>1, ConcatProperties
<1>5. Ids(c) \subseteq Ids(q) \cup Ids(b)
  BY <1>2, <1>4 DEF Ids
<1>6. Ids(q) \subseteq Ids(c)
  BY <1>2 DEF Ids
<1>7. Ids(b) \subseteq Ids(c)
  <2> SUFFICES ASSUME NEW i \in DOMAIN b
               PROVE  b[i].id \in Ids(c)
    BY DEF Ids
  <2>1. Len(q) + i \in DOMAIN c /\ c[Len(q) + i].id = b[i].id
    BY <1>3
  <2> HIDE DEF c
  <2>2. QED
    BY <2>1 DEF Ids
<1>8. QED
  BY <1>5, <1>6, <1>7

LEMMA HeadTailIds ==
  ASSUME NEW q \in Seq(Envelopes), q # <<>>
  PROVE  Ids(q) = {Head(q).id} \cup Ids(Tail(q))
<1>1. /\ Len(q) \in Nat /\ Len(q) >= 1 /\ DOMAIN q = 1..Len(q)
      /\ Head(q) = q[1]
      /\ Tail(q) \in Seq(Envelopes) /\ Len(Tail(q)) = Len(q) - 1
      /\ \A i \in 1..(Len(q) - 1) : Tail(q)[i] = q[i + 1]
  BY HeadTailProperties
<1>2. DOMAIN Tail(q) = 1..(Len(q) - 1)
  BY <1>1
<1>3. Ids(q) \subseteq {Head(q).id} \cup Ids(Tail(q))
  <2> SUFFICES ASSUME NEW i \in 1..Len(q)
               PROVE  q[i].id \in {Head(q).id} \cup Ids(Tail(q))
    BY <1>1 DEF Ids
  <2>1. CASE i = 1
    BY <1>1, <2>1
  <2>2. CASE i # 1
    <3>1. i - 1 \in DOMAIN Tail(q) /\ Tail(q)[i - 1] = q[i]
      BY <1>1, <1>2, <2>2
    <3>2. QED
      BY <3>1 DEF Ids
  <2>3. QED
    BY <2>1, <2>2
<1>4. Ids(Tail(q)) \subseteq Ids(q)
  <2> SUFFICES ASSUME NEW i \in 1..(Len(q) - 1)
               PROVE  Tail(q)[i].id \in Ids(q)
    BY <1>2 DEF Ids
  <2>1. i + 1 \in DOMAIN q /\ Tail(q)[i] = q[i + 1]
    BY <1>1
  <2>2. QED
    BY <2>1 DEF Ids
<1>5. Head(q).id \in Ids(q)
  BY <1>1 DEF Ids
<1>6. QED
  BY <1>3, <1>4, <1>5

\* What the operators do to the work in the normal lane, and to its queue.
LEMMA NewWork == Work(NewScheduler) = {} /\ NewScheduler.pending = <<>>
  BY NoIds DEF Work, NewScheduler

LEMMA WorkDropped ==
  ASSUME NEW s \in SchedulerStates
  PROVE  /\ Work(Cancel(s)) = {} /\ Cancel(s).pending = <<>>
         /\ Work(Halt(s)) = {} /\ Halt(s).pending = <<>>
  BY NoIds DEF Work, Cancel, Halt, Invalidate, SchedulerStates

LEMMA WorkKept ==
  ASSUME NEW s \in SchedulerStates
  PROVE  /\ Work(Invalidate(s)) = Work(s) /\ Invalidate(s).pending = s.pending
         /\ Work(Restored(s)) = Work(s) /\ Restored(s).pending = s.pending
         /\ Work(StartInterrupt(s)) = Work(s) /\ StartInterrupt(s).pending = s.pending
         /\ \A o : Work(Claim(s, o)) = Work(s) /\ Claim(s, o).pending = s.pending
         /\ \A b : Work(AppendInterrupts(s, b)) = Work(s) /\ AppendInterrupts(s, b).pending = s.pending
         /\ \A old, new : LET t == ReplaceInterruptPolicy(s, old, new)
                          IN  Work(t) = Work(s) /\ t.pending = s.pending
<1> USE DEF SchedulerStates
<1>r. s.running \in Running \cup {None}
  OBVIOUS
<1>1. Work(Invalidate(s)) = Work(s) /\ Invalidate(s).pending = s.pending
  BY DEF Invalidate, Work
<1>2. Work(Restored(s)) = Work(s) /\ Restored(s).pending = s.pending
  <2>1. Restored(s).running = SetPaused(s.running, FALSE) /\ Restored(s).pending = s.pending
    BY DEF Restored
  <2>2. QED
    BY <1>r, <2>1, SlotIds DEF Work
<1>3. Work(StartInterrupt(s)) = Work(s) /\ StartInterrupt(s).pending = s.pending
  <2>1. /\ StartInterrupt(s).running = SetPaused(s.running, TRUE)
        /\ StartInterrupt(s).pending = s.pending
    BY DEF StartInterrupt
  <2>2. QED
    BY <1>r, <2>1, SlotIds DEF Work
<1>4. \A o : Work(Claim(s, o)) = Work(s) /\ Claim(s, o).pending = s.pending
  BY DEF Claim, Work
<1>5. ASSUME NEW b
      PROVE  Work(AppendInterrupts(s, b)) = Work(s) /\ AppendInterrupts(s, b).pending = s.pending
  <2>1. /\ AppendInterrupts(s, b).running = SetPaused(s.running, TRUE)
        /\ AppendInterrupts(s, b).pending = s.pending
    <3> DEFINE q == s.interruptPending \o b
    <3> HIDE DEF q
    <3>1. LET t == [s EXCEPT !.interruptPending = q, !.running = SetPaused(@, TRUE)]
          IN  t.running = SetPaused(s.running, TRUE) /\ t.pending = s.pending
      OBVIOUS
    <3>2. QED
      BY <3>1 DEF AppendInterrupts, q
  <2>2. QED
    BY <1>r, <2>1, SlotIds DEF Work
<1>6. ASSUME NEW old, NEW new
      PROVE  LET t == ReplaceInterruptPolicy(s, old, new)
             IN  Work(t) = Work(s) /\ t.pending = s.pending
  BY ReplaceInterruptPolicyKeepsLength DEF Work
<1>7. QED
  BY <1>1, <1>2, <1>3, <1>4, <1>5, <1>6

LEMMA WorkTicked ==
  ASSUME NEW s \in SchedulerStates, NEW which, NEW k \in Continuations \cup {None}
  PROVE  /\ Work(SetContinuation(s, which, k)) = Work(s)
         /\ SetContinuation(s, which, k).pending = s.pending
<1> DEFINE t == SetContinuation(s, which, k)
<1>1. t.pending = s.pending
  BY DEF SetContinuation, SchedulerStates
<1>2. t.running = s.running \/ (s.running # None /\ t.running = [s.running EXCEPT !.cont = k])
  BY DEF SetContinuation, SchedulerStates
<1>3. RunningIds(t.running) = RunningIds(s.running)
  BY <1>2, FieldTypes, SlotIds
<1>4. QED
  BY <1>1, <1>3 DEF Work

LEMMA WorkAppended ==
  ASSUME NEW s \in SchedulerStates, NEW b \in Seq(Envelopes)
  PROVE  Work(AppendBatch(s, b)) = Work(s) \cup Ids(b)
<1>1. AppendBatch(s, b).running = s.running /\ AppendBatch(s, b).pending = s.pending \o b
  BY DEF AppendBatch, SchedulerStates
<1>2. QED
  BY <1>1, FieldTypes, ConcatIds DEF Work

LEMMA WorkStarted ==
  ASSUME NEW s \in SchedulerStates, CanStartNormal(s)
  PROVE  Work(StartNormal(s)) = Work(s) /\ StartNormal(s).pending = Tail(s.pending)
<1>1. /\ StartNormal(s).running = Started(Head(s.pending))
      /\ StartNormal(s).pending = Tail(s.pending)
  BY DEF StartNormal, SchedulerStates
<1>2. Head(s.pending) \in Envelopes
  BY FieldTypes DEF CanStartNormal
<1>3. RunningIds(Started(Head(s.pending))) = {Head(s.pending).id}
  BY <1>2, StartedIsRunning DEF RunningIds, Started
<1>4. QED
  BY <1>1, <1>3, FieldTypes, HeadTailIds, NoIds DEF Work, CanStartNormal

LEMMA WorkCompleted ==
  ASSUME NEW s \in SchedulerStates, NEW which, NEW outcome
  PROVE  LET t == Complete(s, which, outcome) IN
         /\ Work(t) \subseteq Work(s) /\ t.pending = s.pending
         /\ which = "normal" => t.running = None
<1> DEFINE t == Complete(s, which, outcome)
<1>1. CASE which = "normal" /\ s.running # None
  <2>1. t.running = None /\ t.pending = s.pending
    BY <1>1 DEF Complete, CompleteNormal, SchedulerStates
  <2>2. QED
    BY <2>1, NoIds DEF Work
<1>2. CASE which = "interrupt" /\ s.interrupt # None
  <2>1. t.pending = s.pending
    BY <1>2 DEF Complete, CompleteInterrupt, SchedulerStates
  <2>2. t.running = s.running \/ t.running = SetPaused(s.running, FALSE)
    BY <1>2 DEF Complete, CompleteInterrupt, SchedulerStates
  <2>3. RunningIds(t.running) = RunningIds(s.running)
    BY <2>2, FieldTypes, SlotIds
  <2>4. QED
    BY <1>2, <2>1, <2>3 DEF Work
<1>3. CASE t = s /\ ~(which = "normal" /\ s.running # None)
  BY <1>3
<1>4. QED
  BY <1>1, <1>2, <1>3 DEF Complete

\* The invariant in terms of Work.
LEMMA OwnershipDef ==
  WorkIsOwned <=>
    (Work(sched) # {} =>
       /\ queueClaim # None
       /\ queueClaim.owner # Script =>
            actionRun # None /\ actionRun.id = queueClaim.owner /\ Work(sched) \subseteq Ids(actionRun.actions))
  BY DEF WorkIsOwned, Work

\* Most steps leave the owner and its run alone and add no work.
LEMMA OwnershipKept ==
  ASSUME OwnershipInv, queueClaim' = queueClaim,
         \/ actionRun' = actionRun
         \/ /\ actionRun # None /\ actionRun' # None
            /\ actionRun'.id = actionRun.id /\ actionRun'.actions = actionRun.actions,
         Work(sched)' \subseteq Work(sched), sched'.pending = sched.pending
  PROVE  OwnershipInv'
<1>1. WorkIsOwned'
  BY OwnershipDef DEF OwnershipInv, WorkIsOwned, Work
<1>2. OwnerKnown' /\ ScriptQueueEmpty'
  BY DEF OwnershipInv, OwnerKnown, ScriptQueueEmpty
<1>3. QED
  BY <1>1, <1>2 DEF OwnershipInv

\* A step that empties the lane gives it up.
LEMMA OwnershipGivenUp ==
  ASSUME queueClaim' = None, Work(sched)' = {}, sched'.pending = <<>>
  PROVE  OwnershipInv'
  BY DEF OwnershipInv, WorkIsOwned, OwnerKnown, ScriptQueueEmpty, Work

LEMMA OwnershipClients == TypeInv /\ ClaimAgreement /\ OwnershipInv /\ Clients => OwnershipInv'
<1> SUFFICES ASSUME TypeInv, ClaimAgreement, OwnershipInv, Clients
             PROVE  OwnershipInv'
  OBVIOUS
<1>s. sched \in SchedulerStates /\ submitted \in Nat
  BY DEF TypeInv, TypeOK
<1>1. CASE BeginSetScript
  BY <1>1, OwnershipKept DEF BeginSetScript, engine
<1>2. ASSUME NEW len \in 0..MaxScript, SetScript(len)
      PROVE  OwnershipInv'
  <2>1. Work(sched)' = {} /\ sched'.pending = <<>>
    BY <1>2, NewSchedulerType, WorkKept, NewWork DEF SetScript
  <2>2. queueClaim'.owner = Script
    BY <1>2 DEF SetScript, Claim, NewScheduler
  <2>3. QED
    BY <2>1, <2>2 DEF OwnershipInv, WorkIsOwned, OwnerKnown, ScriptQueueEmpty, Work
<1>3. ASSUME NEW r \in Runs, AcquireRun(r)
      PROVE  OwnershipInv'
  <2>1. Work(sched) = {}
    BY <1>3, OwnershipDef DEF AcquireRun, OwnershipInv
  <2>2. Work(sched)' = {} /\ actionRun' # None
    BY <1>3, <1>s, <2>1, WorkKept, RunIsNotNone, EmptySeq DEF AcquireRun
  <2>3. queueClaim'.owner = r /\ actionRun'.id = r
    BY <1>3, <1>s DEF AcquireRun, Claim, SchedulerStates
  <2>4. QED
    BY <2>2, <2>3 DEF OwnershipInv, WorkIsOwned, OwnerKnown, ScriptQueueEmpty, Work
<1>4. ASSUME NEW n \in 1..MaxBatch, SubmitBatch(n)
      PROVE  OwnershipInv'
  <2> DEFINE b == Batch(n, "run", "run")
  <2>1. n \in Nat /\ n >= 1
    BY EngineAssumption
  <2>2. b \in Seq(Envelopes)
    BY <1>4, <1>s, <2>1, BatchType DEF SubmitBatch, Policies
  <2>3. /\ actionRun # None /\ actionRun.actions = <<>> /\ queueClaim # None
        /\ queueClaim.owner = actionRun.id /\ queueClaim' = queueClaim
        /\ sched' = AppendBatch(sched, b) /\ actionRun' = [actionRun EXCEPT !.actions = b]
    BY <1>4 DEF SubmitBatch, Authorized
  <2> HIDE DEF b
  <2>4. actionRun \in ActionRuns /\ actionRun.id # Script
    BY <2>3, EngineAssumption DEF TypeInv, TypeOK, ActionRuns
  <2>5. Work(sched) = {}
    BY <2>3, <2>4, OwnershipDef, NoIds DEF OwnershipInv
  <2>6. Work(sched)' = Ids(b)
    BY <1>s, <2>2, <2>3, <2>5, WorkAppended
  <2>7. actionRun'.actions = b /\ actionRun'.id = actionRun.id /\ actionRun' # None
    BY <2>2, <2>3, <2>4, RunChangedIsNotNone DEF ActionRuns
  <2>8. QED
    BY <2>3, <2>6, <2>7 DEF OwnershipInv, WorkIsOwned, OwnerKnown, ScriptQueueEmpty, Work
<1>5. ASSUME NEW n \in 1..MaxBatch, NEW last \in {"client", "client_return_to_origin"},
             SubmitOverride(n, last)
      PROVE  OwnershipInv'
  BY <1>5, <1>s, WorkKept, OwnershipKept DEF SubmitOverride
<1>6. CASE CancelRun
  <2>1. CASE Authorized(sched, queueClaim)
    BY <1>6, <1>s, <2>1, WorkDropped, OwnershipGivenUp DEF CancelRun
  <2>2. CASE ~Authorized(sched, queueClaim)
    <3>1. queueClaim = None /\ queueClaim' = None /\ sched' = sched
      BY <1>6, <2>2 DEF CancelRun, Authorized, ClaimAgreement
    <3>2. actionRun # None /\ actionRun' # None
      BY <1>6, RunChangedIsNotNone DEF CancelRun, TypeInv, TypeOK, RunOutcomes
    <3>3. Work(sched)' = {} /\ (actionRun' = None => sched'.pending = <<>>)
      BY <3>1, <3>2, OwnershipDef DEF OwnershipInv
    <3>4. QED
      BY <3>1, <3>3 DEF OwnershipInv, WorkIsOwned, OwnerKnown, ScriptQueueEmpty, Work
  <2>3. QED
    BY <2>1, <2>2
<1>7. CASE HaltSession
  BY <1>7, <1>s, WorkDropped, OwnershipGivenUp DEF HaltSession, EngineHalted
<1>8. QED
  BY <1>1, <1>2, <1>3, <1>4, <1>5, <1>6, <1>7 DEF Clients

LEMMA OwnershipDecide ==
  ASSUME TypeInv, OwnershipInv, NEW p \in Steppers, Decide(p)
  PROVE  OwnershipInv'
<1>s. sched \in SchedulerStates /\ submitted \in Nat
  BY DEF TypeInv, TypeOK
<1>1. CASE DecideContinue(p) \/ DecideTypedDrained(p) \/ DecideScriptFails(p)
  BY <1>1, OwnershipKept DEF DecideContinue, DecideTypedDrained, DecideScriptFails, engine
<1>2. CASE DecideOverride(p)
  <2> DEFINE s == ReplaceInterruptPolicy(sched, "client_return_to_origin",
                                         "client_return_to_origin_ready")
  <2>1. s \in SchedulerStates /\ Work(s) = Work(sched) /\ s.pending = sched.pending
    BY <1>s, ReplaceInterruptPolicyType, WorkKept DEF Policies
  <2>2. sched' = StartInterrupt(s) /\ UNCHANGED <<queueClaim, actionRun>>
    BY <1>2 DEF DecideOverride
  <2> HIDE DEF s
  <2>3. Work(sched)' = Work(sched) /\ sched'.pending = sched.pending
    BY <2>1, <2>2, WorkKept
  <2>4. QED
    BY <2>2, <2>3, OwnershipKept
<1>3. CASE DecideTyped(p)
  <2>1. CanStartNormal(sched)
    BY <1>3 DEF DecideTyped, LaneIdle, CanStartNormal
  <2>2. Work(sched)' = Work(sched)
    BY <1>3, <1>s, <2>1, WorkStarted DEF DecideTyped
  <2>3. QED
    BY <1>3, <2>2, OwnershipDef DEF DecideTyped, OwnershipInv, WorkIsOwned, OwnerKnown,
                                     ScriptQueueEmpty, Work
<1>4. CASE DecideScript(p)
  <2> DEFINE b == Batch(1, "script", "script")
             s == AppendBatch(sched, b)
  <2>1. b \in Seq(Envelopes) /\ b # <<>> /\ Len(b) = 1
    <3>1. b \in Seq(Envelopes)
      BY <1>4, <1>s, BatchType DEF DecideScript, Policies
    <3>2. DOMAIN b = 1..1
      BY DEF Batch
    <3> HIDE DEF b
    <3>3. Len(b) = 1
      BY <3>1, <3>2
    <3>4. QED
      BY <3>1, <3>3
  <2>2. s \in SchedulerStates /\ CanStartNormal(s)
    BY <1>4, <1>s, <2>1, AppendBatchType, AppendBatchStartable DEF DecideScript, LaneIdle
  <2>3. s.pending = b
    <3>1. s.pending = sched.pending \o b /\ sched.pending = <<>>
      BY <1>4, <1>s DEF AppendBatch, SchedulerStates, DecideScript, OwnershipInv, ScriptQueueEmpty
    <3> HIDE DEF b, s
    <3>2. QED
      BY <2>1, <3>1
  <2>4. sched' = StartNext(s) /\ queueClaim # None /\ actionRun = None
        /\ UNCHANGED <<queueClaim, actionRun>>
    BY <1>4 DEF DecideScript
  <2> HIDE DEF s, b
  <2>5. sched' = StartNormal(s)
    BY <2>2, <2>4 DEF StartNext, CanStartNormal, CanStartInterrupt, InterruptBusy
  <2>6. sched'.pending = <<>>
    <3>1. sched'.pending = Tail(b)
      BY <2>2, <2>3, <2>5, WorkStarted
    <3>2. Tail(b) \in Seq(Envelopes) /\ Len(Tail(b)) = 0
      BY <2>1, HeadTailProperties
    <3>3. QED
      BY <3>1, <3>2, EmptySeq
  <2>7. queueClaim.owner = Script
    BY <2>4 DEF OwnershipInv, OwnerKnown
  <2>8. QED
    BY <2>4, <2>6, <2>7 DEF OwnershipInv, WorkIsOwned, OwnerKnown, ScriptQueueEmpty, Work
<1>5. CASE DecideScriptComplete(p)
  <2>1. Work(sched) = {} /\ sched.pending = <<>>
    BY <1>5, NoIds DEF DecideScriptComplete, LaneIdle, Work, OwnershipInv, ScriptQueueEmpty
  <2>2. Work(sched)' = {} /\ sched'.pending = <<>> /\ queueClaim' = None
    BY <1>5, <1>s, <2>1, WorkKept DEF DecideScriptComplete, Release
  <2>3. QED
    BY <2>2, OwnershipGivenUp
<1>6. QED
  BY <1>1, <1>2, <1>3, <1>4, <1>5 DEF Decide

LEMMA OwnershipApply ==
  ASSUME TypeInv, OwnershipInv, NEW p \in Steppers, Apply(p)
  PROVE  OwnershipInv'
<1>s. sched \in SchedulerStates /\ actionRun \in ActionRuns \cup {None}
  BY DEF TypeInv, TypeOK
<1> DEFINE s == Complete(sched, ResultLane, "succeeded")
<1>c. /\ s \in SchedulerStates /\ Work(s) \subseteq Work(sched) /\ s.pending = sched.pending
      /\ ResultLane = "normal" => s.running = None
  BY <1>s, ResultLaneType, CompleteType, WorkCompleted DEF Outcomes
<1>k. \A k \in PlannerContinuations(p) : step[p].phase = "io" => k \in Continuations \cup {None}
  BY PlannerContinuationsType DEF StepsTyped, TypeInv, TypeOK
<1>1. CASE ResultPaused(p)
  <2>1. PICK k \in PlannerContinuations(p) : sched' = Ticked(k)
    BY <1>1 DEF ResultPaused
  <2>2. Work(sched)' = Work(sched) /\ sched'.pending = sched.pending
    BY <1>1, <1>s, <1>k, <2>1, WorkTicked DEF ResultPaused, Ticked
  <2>3. QED
    BY <1>1, <2>2, OwnershipKept DEF ResultPaused
<1>2. CASE ResultCompleted(p)
  <2>1. /\ sched' = IF RunDrained(s) /\ queueClaim # None THEN Release(s) ELSE s
        /\ queueClaim' = IF RunDrained(s) THEN None ELSE queueClaim
        /\ actionRun' = RunSucceeded(s)
    BY <1>2 DEF ResultCompleted
  <2> HIDE DEF s
  <2>2. Work(sched)' = Work(s) /\ sched'.pending = s.pending
    BY <1>c, <2>1, WorkKept DEF Release
  <2>3. CASE RunDrained(s)
    <3>1. Work(s) = {} /\ s.pending = <<>>
      BY <1>c, <2>3, NoIds DEF RunDrained, Work
    <3>2. QED
      BY <2>1, <2>2, <2>3, <3>1, OwnershipGivenUp
  <2>4. CASE ~RunDrained(s)
    <3>1. queueClaim' = queueClaim /\ actionRun' = actionRun
      BY <2>1, <2>4 DEF RunSucceeded
    <3>2. QED
      BY <1>c, <2>2, <3>1, OwnershipKept
  <2>5. QED
    BY <2>3, <2>4
<1>3. CASE ResultHalt(p)
  <2>1. Halt(s) \in SchedulerStates /\ sched' = Halt(Halt(s)) /\ queueClaim' = None
    BY <1>3, <1>c, HaltType DEF ResultHalt, EngineHalted
  <2>2. QED
    BY <2>1, WorkDropped, OwnershipGivenUp
<1>4. CASE ResultFailed(p)
  <2>1. PICK k \in PlannerContinuations(p) : sched' = Halt(Ticked(k)) /\ queueClaim' = None
    BY <1>4 DEF ResultFailed, EngineHalted
  <2>2. Ticked(k) \in SchedulerStates
    BY <1>4, <1>s, <1>k, ResultLaneType, SetContinuationType DEF ResultFailed, Ticked
  <2>3. QED
    BY <2>1, <2>2, WorkDropped, OwnershipGivenUp
<1>5. QED
  BY <1>1, <1>2, <1>3, <1>4 DEF Apply

LEMMA OwnershipStep ==
  TypeInv /\ ClaimAgreement /\ OwnershipInv /\ [NextBesideHosts]_vars => OwnershipInv'
<1> SUFFICES ASSUME TypeInv, ClaimAgreement, OwnershipInv, [NextBesideHosts]_vars
             PROVE  OwnershipInv'
  OBVIOUS
<1>s. sched \in SchedulerStates
  BY DEF TypeInv, TypeOK
<1>1. CASE UNCHANGED engine
  BY <1>1, OwnershipKept DEF engine
<1>2. CASE FailRun /\ ~UNCHANGED engine
  BY <1>2, <1>s, WorkDropped, OwnershipGivenUp DEF FailRun, EngineHalted
<1>3. CASE Restart
  BY <1>3, <1>s, WorkKept, OwnershipKept DEF Restart
<1>4. StartRunner \/ (\E h \in Hosts : StartHostStep(h)) \/ (\E p \in Steppers : DropStep(p))
        \/ UNCHANGED vars => UNCHANGED engine
  BY DEF StartRunner, StartHostStep, DropStep, vars
<1>5. QED
  BY <1>1, <1>2, <1>3, <1>4, OwnershipClients, OwnershipDecide, OwnershipApply
     DEF NextBesideHosts, Next

LEMMA OwnershipInvariant == SpecBesideHosts => []OwnershipInv
<1>1. Init => OwnershipInv
  BY NewWork DEF Init, OwnershipInv, WorkIsOwned, OwnerKnown, ScriptQueueEmpty, Work
<1>2. QED
  BY <1>1, OwnershipStep, TypeInvariant, ClaimAgreementInvariant, PTL DEF SpecBesideHosts

\* Work in the normal lane always has an owner, and when a typed run owns the lane
\* all of it is that run's: it finds nothing of an earlier run or script there.
THEOREM LaneIsOwned == Spec => []WorkIsOwned
<1>1. OwnershipInv => WorkIsOwned
  BY DEF OwnershipInv
<1>2. QED
  BY <1>1, OwnershipInvariant, SpecIsSpecBesideHosts, PTL

-----------------------------------------------------------------------------
(* What a successful run has executed. *)

\* The ids of the actions that a completion log records as successful.
Successes(log) == {log[i].env.id : i \in {j \in DOMAIN log : log[j].outcome = "succeeded"}}

\* An action of the run that owns the lane has succeeded, runs or waits: none is
\* forgotten.
BatchAccounted ==
  queueClaim # None /\ queueClaim.owner # Script =>
    Ids(actionRun.actions) \subseteq SucceededIds(sched) \cup Work(sched)

\* Beside a typed run, finished or not, a loaded script executes nothing.
ScriptWorksAlone ==
  actionRun # None /\ queueClaim # None /\ queueClaim.owner = Script => Work(sched) = {}

ProgressInv == BatchAccounted /\ ScriptWorksAlone

LEMMA SucceededIdsDef == \A s : SucceededIds(s) = Successes(s.completed)
  BY DEF SucceededIds, Successes

LEMMA SuccessesAppended ==
  ASSUME NEW log \in Seq(Completed), NEW env \in Envelopes
  PROVE  LET longer == Append(log, [env |-> env, outcome |-> "succeeded"]) IN
         Successes(log) \cup {env.id} \subseteq Successes(longer)
<1> DEFINE rec    == [env |-> env, outcome |-> "succeeded"]
           longer == Append(log, rec)
<1>1. rec \in Completed /\ rec.outcome = "succeeded" /\ rec.env = env
  BY DEF Completed, Outcomes
<1> HIDE DEF rec
<1>2. /\ Len(log) \in Nat /\ DOMAIN log = 1..Len(log)
      /\ longer \in Seq(Completed) /\ Len(longer) = Len(log) + 1
      /\ \A i \in 1..Len(log) : longer[i] = log[i]
      /\ longer[Len(log) + 1] = rec
  BY <1>1, AppendProperties
<1>3. DOMAIN longer = 1..(Len(log) + 1)
  BY <1>2, LenProperties
<1> HIDE DEF longer
<1>4. Successes(log) \subseteq Successes(longer)
  <2> SUFFICES ASSUME NEW i \in DOMAIN log, log[i].outcome = "succeeded"
               PROVE  log[i].env.id \in Successes(longer)
    BY DEF Successes
  <2>1. i \in DOMAIN longer /\ longer[i] = log[i]
    BY <1>2, <1>3
  <2>2. QED
    BY <2>1 DEF Successes
<1>5. env.id \in Successes(longer)
  <2>1. Len(log) + 1 \in DOMAIN longer
    BY <1>2, <1>3
  <2>2. QED
    BY <1>1, <1>2, <2>1 DEF Successes
<1>6. QED
  BY <1>4, <1>5 DEF longer, rec

\* An action that completes passes from the work to the successes.
LEMMA WorkEarned ==
  ASSUME NEW s \in SchedulerStates, NEW which \in Lanes
  PROVE  LET t == Complete(s, which, "succeeded") IN
         SucceededIds(s) \cup Work(s) \subseteq SucceededIds(t) \cup Work(t)
<1> DEFINE t == Complete(s, which, "succeeded")
<1> SUFFICES SucceededIds(s) \cup Work(s) \subseteq SucceededIds(t) \cup Work(t)
  OBVIOUS
<1>1. CASE which = "normal" /\ s.running # None
  <2>1. /\ t.running = None /\ t.pending = s.pending
        /\ t.completed = Append(s.completed, [env |-> s.running.env, outcome |-> "succeeded"])
    BY <1>1 DEF Complete, CompleteNormal, SchedulerStates
  <2>2. s.running.env \in Envelopes /\ s.completed \in Seq(Completed)
    BY <1>1, FieldTypes DEF Running
  <2> HIDE DEF t
  <2>3. Successes(s.completed) \cup {s.running.env.id} \subseteq Successes(t.completed)
    BY <2>1, <2>2, SuccessesAppended
  <2>4. QED
    BY <1>1, <2>1, <2>3, SucceededIdsDef DEF Work, RunningIds
<1>2. CASE which = "interrupt" /\ s.interrupt # None
  <2>1. /\ t.pending = s.pending
        /\ t.running = s.running \/ t.running = SetPaused(s.running, FALSE)
        /\ t.completed = Append(s.completed, [env |-> s.interrupt.env, outcome |-> "succeeded"])
    BY <1>2 DEF Complete, CompleteInterrupt, SchedulerStates
  <2>2. s.interrupt.env \in Envelopes /\ s.completed \in Seq(Completed)
    BY <1>2, FieldTypes DEF Running
  <2> HIDE DEF t
  <2>3. Successes(s.completed) \subseteq Successes(t.completed)
    BY <2>1, <2>2, SuccessesAppended
  <2>4. RunningIds(t.running) = RunningIds(s.running)
    BY <2>1, FieldTypes, SlotIds
  <2>5. QED
    BY <2>1, <2>3, <2>4, SucceededIdsDef DEF Work
<1>3. CASE ~(which = "normal" /\ s.running # None) /\ ~(which = "interrupt" /\ s.interrupt # None)
  BY <1>3 DEF Complete
<1>4. QED
  BY <1>1, <1>2, <1>3

\* Nothing else writes the completion log of a lane that keeps its owner.
LEMMA LogKept ==
  ASSUME NEW s \in SchedulerStates
  PROVE  /\ Invalidate(s).completed = s.completed
         /\ Restored(s).completed = s.completed
         /\ StartInterrupt(s).completed = s.completed
         /\ StartNormal(s).completed = s.completed
         /\ \A o : Claim(s, o).completed = s.completed
         /\ \A b : AppendBatch(s, b).completed = s.completed
         /\ \A b : AppendInterrupts(s, b).completed = s.completed
         /\ \A old, new : ReplaceInterruptPolicy(s, old, new).completed = s.completed
         /\ \A which, k : SetContinuation(s, which, k).completed = s.completed
<1>1. \A b : AppendBatch(s, b).completed = s.completed
  BY DEF AppendBatch, SchedulerStates
<1>2. \A b : AppendInterrupts(s, b).completed = s.completed
  BY DEF AppendInterrupts, SchedulerStates
<1>3. \A old, new : ReplaceInterruptPolicy(s, old, new).completed = s.completed
  BY DEF ReplaceInterruptPolicy, SchedulerStates
<1>4. \A which, k : SetContinuation(s, which, k).completed = s.completed
  BY DEF SetContinuation, SchedulerStates
<1>5. QED
  BY <1>1, <1>2, <1>3, <1>4
     DEF Invalidate, Restored, StartInterrupt, StartNormal, Claim, SchedulerStates

LEMMA ProgressKept ==
  ASSUME ProgressInv, queueClaim' = queueClaim,
         \/ actionRun' = actionRun
         \/ /\ actionRun # None
            /\ actionRun'.actions = actionRun.actions,
         SucceededIds(sched) \cup Work(sched) \subseteq SucceededIds(sched') \cup Work(sched'),
         Work(sched') \subseteq Work(sched)
  PROVE  ProgressInv'
<1>1. BatchAccounted'
  BY DEF ProgressInv, BatchAccounted
<1>2. ScriptWorksAlone'
  BY DEF ProgressInv, ScriptWorksAlone
<1>3. QED
  BY <1>1, <1>2 DEF ProgressInv

LEMMA ProgressGivenUp ==
  ASSUME queueClaim' = None
  PROVE  ProgressInv'
  BY DEF ProgressInv, BatchAccounted, ScriptWorksAlone

LEMMA ProgressClients == TypeInv /\ ClaimAgreement /\ OwnershipInv /\ ProgressInv /\ Clients => ProgressInv'
<1> SUFFICES ASSUME TypeInv, ClaimAgreement, OwnershipInv, ProgressInv, Clients
             PROVE  ProgressInv'
  OBVIOUS
<1>s. sched \in SchedulerStates /\ submitted \in Nat
  BY DEF TypeInv, TypeOK
<1>1. CASE BeginSetScript
  BY <1>1, ProgressKept DEF BeginSetScript, engine
<1>2. ASSUME NEW len \in 0..MaxScript, SetScript(len)
      PROVE  ProgressInv'
  <2>1. /\ sched' = Claim(NewScheduler, Script)
        /\ queueClaim' = [owner |-> Script, generation |-> NewScheduler.generation + 1]
    BY <1>2 DEF SetScript, Claim, NewScheduler
  <2>2. Work(sched') = {}
    BY <2>1, NewSchedulerType, WorkKept, NewWork
  <2>3. queueClaim'.owner = Script
    BY <2>1
  <2>4. QED
    BY <2>2, <2>3 DEF ProgressInv, BatchAccounted, ScriptWorksAlone
<1>3. ASSUME NEW r \in Runs, AcquireRun(r)
      PROVE  ProgressInv'
  <2>1. /\ sched' = Claim(sched, r)
        /\ queueClaim' = [owner |-> r, generation |-> sched.generation + 1]
        /\ actionRun' = [id |-> r, actions |-> <<>>, outcome |-> None]
    BY <1>3, <1>s DEF AcquireRun, Claim, SchedulerStates
  <2>2. queueClaim'.owner = r /\ r # Script
    BY <2>1, EngineAssumption
  <2>3. Ids(actionRun'.actions) = {}
    BY <2>1, NoIds
  <2>4. QED
    BY <2>2, <2>3 DEF ProgressInv, BatchAccounted, ScriptWorksAlone
<1>4. ASSUME NEW n \in 1..MaxBatch, SubmitBatch(n)
      PROVE  ProgressInv'
  <2> DEFINE b == Batch(n, "run", "run")
  <2>1. /\ sched' = AppendBatch(sched, b) /\ queueClaim' = queueClaim
        /\ actionRun # None /\ actionRun' = [actionRun EXCEPT !.actions = b]
        /\ queueClaim # None /\ queueClaim.owner = actionRun.id
        /\ Available(n)
    BY <1>4 DEF SubmitBatch, Authorized
  <2>2. n \in Nat /\ n >= 1
    BY EngineAssumption
  <2>3. b \in Seq(Envelopes)
    BY <1>s, <2>1, <2>2, BatchType DEF Policies
  <2>4. actionRun \in ActionRuns
    BY <2>1 DEF TypeInv, TypeOK
  <2> HIDE DEF b
  <2>5. actionRun'.actions = b /\ queueClaim.owner # Script
    BY <2>1, <2>4, EngineAssumption DEF ActionRuns
  <2>6. Ids(actionRun'.actions) \subseteq Work(sched')
    BY <1>s, <2>1, <2>3, <2>5, WorkAppended
  <2>7. QED
    BY <2>1, <2>5, <2>6 DEF ProgressInv, BatchAccounted, ScriptWorksAlone
<1>5. ASSUME NEW n \in 1..MaxBatch, NEW last \in {"client", "client_return_to_origin"},
             SubmitOverride(n, last)
      PROVE  ProgressInv'
  <2>1. /\ sched' = AppendInterrupts(sched, Batch(n, "client", last))
        /\ queueClaim' = queueClaim /\ actionRun' = actionRun
    BY <1>5 DEF SubmitOverride
  <2>2. Work(sched') = Work(sched) /\ sched'.completed = sched.completed
    BY <1>s, <2>1, WorkKept, LogKept
  <2>3. QED
    BY <2>1, <2>2, ProgressKept, SucceededIdsDef
<1>6. CASE CancelRun
  BY <1>6, ProgressGivenUp DEF CancelRun
<1>7. CASE HaltSession
  BY <1>7, ProgressGivenUp DEF HaltSession, EngineHalted
<1>8. QED
  BY <1>1, <1>2, <1>3, <1>4, <1>5, <1>6, <1>7 DEF Clients

LEMMA ProgressDecide ==
  ASSUME TypeInv, OwnershipInv, ProgressInv, NEW p \in Steppers, Decide(p)
  PROVE  ProgressInv'
<1>s. sched \in SchedulerStates /\ submitted \in Nat
  BY DEF TypeInv, TypeOK
<1>1. CASE DecideContinue(p) \/ DecideTypedDrained(p) \/ DecideScriptFails(p)
  BY <1>1, ProgressKept DEF DecideContinue, DecideTypedDrained, DecideScriptFails, engine
<1>2. CASE DecideOverride(p)
  <2> DEFINE s == ReplaceInterruptPolicy(sched, "client_return_to_origin",
                                         "client_return_to_origin_ready")
  <2>1. /\ sched' = StartInterrupt(s) /\ queueClaim' = queueClaim /\ actionRun' = actionRun
        /\ Work(s) = Work(sched) /\ s.completed = sched.completed /\ s \in SchedulerStates
    BY <1>2, <1>s, WorkKept, LogKept, ReplaceInterruptPolicyType DEF DecideOverride, Policies
  <2> HIDE DEF s
  <2>2. Work(sched') = Work(sched) /\ sched'.completed = sched.completed
    BY <2>1, WorkKept, LogKept
  <2>3. QED
    BY <2>1, <2>2, ProgressKept, SucceededIdsDef
<1>3. CASE DecideTyped(p)
  <2>1. CanStartNormal(sched)
    BY <1>3 DEF DecideTyped, LaneIdle, CanStartNormal
  <2>2. Work(sched') = Work(sched) /\ sched'.completed = sched.completed
    BY <1>3, <1>s, <2>1, WorkStarted, LogKept DEF DecideTyped
  <2>3. QED
    BY <1>3, <2>2, ProgressKept, SucceededIdsDef DEF DecideTyped
<1>4. CASE DecideScript(p)
  <2>1. actionRun' = None /\ actionRun = None /\ queueClaim' = queueClaim /\ queueClaim # None
    BY <1>4 DEF DecideScript
  <2>2. queueClaim.owner = Script
    BY <2>1 DEF OwnershipInv, OwnerKnown
  <2>3. QED
    BY <2>1, <2>2 DEF ProgressInv, BatchAccounted, ScriptWorksAlone
<1>5. CASE DecideScriptComplete(p)
  BY <1>5, ProgressGivenUp DEF DecideScriptComplete
<1>6. QED
  BY <1>1, <1>2, <1>3, <1>4, <1>5 DEF Decide

LEMMA ProgressApply ==
  ASSUME TypeInv, ProgressInv, NEW p \in Steppers, Apply(p)
  PROVE  ProgressInv'
<1>s. sched \in SchedulerStates
  BY DEF TypeInv, TypeOK
<1> DEFINE s == Complete(sched, ResultLane, "succeeded")
<1>1. CASE ResultPaused(p)
  <2>1. PICK k \in PlannerContinuations(p) : sched' = Ticked(k)
    BY <1>1 DEF ResultPaused
  <2>2. k \in Continuations \cup {None}
    BY <1>1, PlannerContinuationsType DEF ResultPaused, StepsTyped, TypeInv, TypeOK
  <2>3. Work(sched') = Work(sched) /\ sched'.completed = sched.completed
    BY <1>s, <2>1, <2>2, WorkTicked, LogKept DEF Ticked
  <2>4. QED
    BY <1>1, <2>3, ProgressKept, SucceededIdsDef DEF ResultPaused
<1>2. CASE ResultCompleted(p)
  <2>1. /\ sched' = IF RunDrained(s) /\ queueClaim # None THEN Release(s) ELSE s
        /\ queueClaim' = IF RunDrained(s) THEN None ELSE queueClaim
        /\ actionRun' = RunSucceeded(s)
    BY <1>2 DEF ResultCompleted
  <2>2. /\ SucceededIds(sched) \cup Work(sched) \subseteq SucceededIds(s) \cup Work(s)
        /\ Work(s) \subseteq Work(sched)
    BY <1>s, ResultLaneType, WorkEarned, WorkCompleted
  <2> HIDE DEF s
  <2>3. CASE RunDrained(s)
    BY <2>1, <2>3, ProgressGivenUp
  <2>4. CASE ~RunDrained(s)
    <3>1. sched' = s /\ queueClaim' = queueClaim /\ actionRun' = actionRun
      BY <2>1, <2>4 DEF RunSucceeded
    <3>2. QED
      BY <2>2, <3>1, ProgressKept
  <2>5. QED
    BY <2>3, <2>4
<1>3. CASE ResultHalt(p) \/ ResultFailed(p)
  BY <1>3, ProgressGivenUp DEF ResultHalt, ResultFailed, EngineHalted
<1>4. QED
  BY <1>1, <1>2, <1>3 DEF Apply

LEMMA ProgressStep ==
  TypeInv /\ ClaimAgreement /\ OwnershipInv /\ ProgressInv /\ [NextBesideHosts]_vars => ProgressInv'
<1> SUFFICES ASSUME TypeInv, ClaimAgreement, OwnershipInv, ProgressInv, [NextBesideHosts]_vars
             PROVE  ProgressInv'
  OBVIOUS
<1>s. sched \in SchedulerStates
  BY DEF TypeInv, TypeOK
<1>1. CASE UNCHANGED engine
  BY <1>1, ProgressKept DEF engine
<1>2. CASE FailRun /\ ~UNCHANGED engine
  BY <1>2, ProgressGivenUp DEF FailRun, EngineHalted
<1>3. CASE Restart
  <2>1. /\ queueClaim' = queueClaim /\ actionRun' = actionRun
        /\ Work(sched') = Work(sched) /\ sched'.completed = sched.completed
    BY <1>3, <1>s, WorkKept, LogKept DEF Restart
  <2>2. QED
    BY <2>1, ProgressKept, SucceededIdsDef
<1>4. StartRunner \/ (\E h \in Hosts : StartHostStep(h)) \/ (\E p \in Steppers : DropStep(p))
        \/ UNCHANGED vars => UNCHANGED engine
  BY DEF StartRunner, StartHostStep, DropStep, vars
<1>5. QED
  BY <1>1, <1>2, <1>3, <1>4, ProgressClients, ProgressDecide, ProgressApply
     DEF NextBesideHosts, Next

LEMMA ProgressInvariant == SpecBesideHosts => []ProgressInv
<1>1. Init => ProgressInv
  BY DEF Init, ProgressInv, BatchAccounted, ScriptWorksAlone
<1>2. QED
  BY <1>1, ProgressStep, TypeInvariant, ClaimAgreementInvariant, OwnershipInvariant, PTL
     DEF SpecBesideHosts

\* A run that becomes successful by the result of its last action has executed every
\* action of its batch, whatever preempted it and whatever restarted in between.
THEOREM SuccessIsWorkDone == Spec => SuccessIsEarned
<1>1. TypeInv /\ OwnershipInv /\ ProgressInv /\ [NextBesideHosts]_vars
        => [/\ actionRun' # None /\ actionRun'.outcome = "succeeded" /\ actionRun' # actionRun
            /\ sched.running # None /\ ~\E p \in Steppers : ResultHalt(p)
            => Ids(actionRun'.actions) \subseteq SucceededIds(sched')]_vars
  <2> SUFFICES ASSUME TypeInv, OwnershipInv, ProgressInv, NextBesideHosts,
                      actionRun' # None, actionRun'.outcome = "succeeded", actionRun' # actionRun,
                      sched.running # None, ~\E p \in Steppers : ResultHalt(p)
               PROVE  Ids(actionRun'.actions) \subseteq SucceededIds(sched')
    OBVIOUS
  <2>s. sched \in SchedulerStates /\ actionRun \in ActionRuns \cup {None}
    BY DEF TypeInv, TypeOK
  \* What runs belongs to the owner of the lane.
  <2>w. sched.running.env.id \in Work(sched)
    BY DEF Work, RunningIds
  <2>1. CASE Clients
    <3>1. ASSUME NEW r \in Runs, AcquireRun(r)
          PROVE  FALSE
      <4>1. actionRun'.outcome = None
        BY <3>1 DEF AcquireRun
      <4>2. queueClaim = None
        BY <3>1 DEF AcquireRun
      <4>3. QED
        BY <4>2, <2>w, OwnershipDef DEF OwnershipInv
    <3>2. ASSUME NEW n \in 1..MaxBatch, SubmitBatch(n)
          PROVE  FALSE
      <4>1. /\ actionRun # None /\ Ids(actionRun.actions) = {}
            /\ queueClaim # None /\ queueClaim.owner = actionRun.id
        BY <3>2, NoIds DEF SubmitBatch, Authorized
      <4>2. queueClaim.owner # Script
        BY <4>1, <2>s, EngineAssumption DEF ActionRuns
      <4>3. QED
        BY <4>1, <4>2, <2>w, OwnershipDef DEF OwnershipInv
    <3>3. CASE CancelRun
      <4>1. actionRun'.outcome = "cancelled"
        BY <3>3, <2>s DEF CancelRun, ActionRuns
      <4>2. QED
        BY <4>1
    <3>4. QED
      BY <2>1, <3>1, <3>2, <3>3
         DEF Clients, BeginSetScript, SetScript, SubmitOverride, HaltSession, engine
  <2>2. ASSUME NEW p \in Steppers, Decide(p)
        PROVE  FALSE
    BY <2>2 DEF Decide, DecideContinue, DecideOverride, DecideTyped, DecideTypedDrained,
                DecideScript, DecideScriptComplete, DecideScriptFails, engine
  <2>3. ASSUME NEW p \in Steppers, ResultCompleted(p)
        PROVE  Ids(actionRun'.actions) \subseteq SucceededIds(sched')
    <3> DEFINE s == Complete(sched, ResultLane, "succeeded")
    <3>1. /\ sched' = IF RunDrained(s) /\ queueClaim # None THEN Release(s) ELSE s
          /\ actionRun' = RunSucceeded(s)
      BY <2>3 DEF ResultCompleted
    <3>2. RunDrained(s) /\ actionRun' = [actionRun EXCEPT !.outcome = "succeeded"]
      BY <3>1 DEF RunSucceeded
    <3>3. ResultLane = "normal" /\ actionRun # None /\ s.pending = <<>>
      BY <3>2 DEF RunDrained
    <3>4. /\ s \in SchedulerStates /\ s.running = None
          /\ SucceededIds(sched) \cup Work(sched) \subseteq SucceededIds(s) \cup Work(s)
      BY <2>s, <3>3, ResultLaneType, CompleteType, WorkCompleted, WorkEarned DEF Outcomes
    <3> HIDE DEF s
    <3>5. Work(s) = {}
      BY <3>3, <3>4, NoIds DEF Work
    <3>6. queueClaim # None
      BY <2>w, OwnershipDef DEF OwnershipInv
    <3>7. queueClaim.owner # Script
      BY <2>w, <3>3, <3>6 DEF ProgressInv, ScriptWorksAlone
    <3>8. Ids(actionRun.actions) \subseteq SucceededIds(s)
      BY <3>4, <3>5, <3>6, <3>7 DEF ProgressInv, BatchAccounted
    <3>9. actionRun'.actions = actionRun.actions
      BY <2>s, <3>2, <3>3 DEF ActionRuns
    <3>10. SucceededIds(sched') = SucceededIds(s)
      BY <3>1, <3>4, LogKept, SucceededIdsDef DEF Release
    <3>11. QED
      BY <3>8, <3>9, <3>10
  <2>4. ASSUME NEW p \in Steppers, ResultPaused(p) \/ ResultFailed(p)
        PROVE  FALSE
    BY <2>4 DEF ResultPaused, ResultFailed
  <2>5. CASE FailRun
    <3>1. actionRun' = actionRun \/ actionRun'.outcome = "failed"
      BY <2>5, <2>s DEF FailRun, ActionRuns, engine
    <3>2. QED
      BY <3>1
  <2>6. CASE StartRunner \/ (\E h \in Hosts : StartHostStep(h)) \/ Restart
             \/ \E p \in Steppers : DropStep(p)
    BY <2>6 DEF StartRunner, StartHostStep, Restart, DropStep, engine
  <2>7. QED
    BY <2>1, <2>2, <2>3, <2>4, <2>5, <2>6 DEF NextBesideHosts, Next, Apply
<1>2. SpecBesideHosts => SuccessIsEarned
  BY <1>1, TypeInvariant, OwnershipInvariant, ProgressInvariant, PTL
     DEF SpecBesideHosts, SuccessIsEarned
<1>3. QED
  BY <1>2, SpecIsSpecBesideHosts, PTL

-----------------------------------------------------------------------------
(* To whom a result is credited. *)

\* The action that a result is credited to: the interrupt lane's, if there is one.
InCharge(s) == IF s.interrupt # None THEN s.interrupt ELSE s.running

RunnerStepsAlone == \A h \in Hosts : step[h].phase = "off"

\* While the runner's game calls are under way, what is in charge is the action
\* they are made for, or nothing: whoever clears the lane, nobody starts another.
StepHoldsItsAction ==
  step[Runner].phase = "io" /\ InCharge(sched) # None => InCharge(sched).env = step[Runner].env

CreditInv == RunnerStepsAlone /\ StepHoldsItsAction

LEMMA SetPausedEnv ==
  ASSUME NEW r \in Running \cup {None}, NEW b \in BOOLEAN, SetPaused(r, b) # None
  PROVE  r # None /\ SetPaused(r, b).env = r.env
  BY DEF SetPaused, Running

\* What the operators that no step of the runner takes do to it.
LEMMA InChargeKept ==
  ASSUME NEW s \in SchedulerStates
  PROVE  /\ InCharge(NewScheduler) = None
         /\ InCharge(Halt(s)) = None
         /\ InCharge(Cancel(s)) \in {InCharge(s), None}
         /\ \A o : InCharge(Claim(s, o)) = InCharge(s)
         /\ \A b : InCharge(AppendBatch(s, b)) = InCharge(s)
         /\ \A b : InCharge(AppendInterrupts(s, b)) # None =>
              InCharge(s) # None /\ InCharge(AppendInterrupts(s, b)).env = InCharge(s).env
<1>1. InCharge(NewScheduler) = None
  BY DEF InCharge, NewScheduler
<1>2. InCharge(Halt(s)) = None
  BY DEF InCharge, Halt, Invalidate, SchedulerStates
<1>3. InCharge(Cancel(s)) \in {InCharge(s), None}
  BY DEF InCharge, Cancel, Invalidate, SchedulerStates
<1>4. \A o : InCharge(Claim(s, o)) = InCharge(s)
  BY DEF InCharge, Claim, SchedulerStates
<1>5. \A b : InCharge(AppendBatch(s, b)) = InCharge(s)
  BY DEF InCharge, AppendBatch, SchedulerStates
<1>6. ASSUME NEW b, InCharge(AppendInterrupts(s, b)) # None
      PROVE  InCharge(s) # None /\ InCharge(AppendInterrupts(s, b)).env = InCharge(s).env
  <2> DEFINE t == AppendInterrupts(s, b)
  <2>1. t.interrupt = s.interrupt /\ t.running = SetPaused(s.running, TRUE)
    BY DEF AppendInterrupts, SchedulerStates
  <2>2. InCharge(t) # None
    BY <1>6
  <2> HIDE DEF t
  <2>3. InCharge(s) # None /\ InCharge(t).env = InCharge(s).env
    BY <2>1, <2>2, FieldTypes, SetPausedEnv DEF InCharge
  <2>4. QED
    BY <2>3 DEF t
<1>7. QED
  BY <1>1, <1>2, <1>3, <1>4, <1>5, <1>6

LEMMA CreditKept ==
  ASSUME CreditInv, step' = step,
         InCharge(sched') # None => InCharge(sched) # None /\ InCharge(sched').env = InCharge(sched).env
  PROVE  CreditInv'
<1>1. StepHoldsItsAction'
  BY DEF CreditInv, StepHoldsItsAction, InCharge
<1>2. RunnerStepsAlone'
  BY DEF CreditInv, RunnerStepsAlone
<1>3. QED
  BY <1>1, <1>2 DEF CreditInv

LEMMA CreditLeft ==
  ASSUME CreditInv, step \in [Steppers -> Steps],
         NEW phase \in {"off", "deciding", "failing"}, Goto(Runner, phase)
  PROVE  CreditInv'
  BY EngineAssumption DEF CreditInv, RunnerStepsAlone, StepHoldsItsAction, Goto, At, Steppers

LEMMA CreditTaken ==
  ASSUME CreditInv, step \in [Steppers -> Steps], StartIo(Runner, InCharge(sched').env)
  PROVE  CreditInv'
  BY EngineAssumption DEF CreditInv, RunnerStepsAlone, StepHoldsItsAction, StartIo, Steppers, InCharge

\* Only the runner leaves "off".
LEMMA StepIsRunners ==
  ASSUME RunnerStepsAlone, NEW p \in Steppers, step[p].phase # "off"
  PROVE  p = Runner
  BY DEF RunnerStepsAlone, Steppers

LEMMA CreditClients == TypeInv /\ CreditInv /\ Clients => CreditInv'
<1> SUFFICES ASSUME TypeInv, CreditInv, Clients
             PROVE  CreditInv'
  OBVIOUS
<1>s. sched \in SchedulerStates
  BY DEF TypeInv, TypeOK
<1>1. CASE BeginSetScript
  BY <1>1, CreditKept DEF BeginSetScript, engine
<1>2. ASSUME NEW len \in 0..MaxScript, SetScript(len)
      PROVE  CreditInv'
  BY <1>2, NewSchedulerType, InChargeKept, CreditKept DEF SetScript
<1>3. ASSUME NEW r \in Runs, AcquireRun(r)
      PROVE  CreditInv'
  BY <1>3, <1>s, InChargeKept, CreditKept DEF AcquireRun
<1>4. ASSUME NEW n \in 1..MaxBatch, SubmitBatch(n)
      PROVE  CreditInv'
  BY <1>4, <1>s, InChargeKept, CreditKept DEF SubmitBatch
<1>5. ASSUME NEW n \in 1..MaxBatch, NEW last \in {"client", "client_return_to_origin"},
             SubmitOverride(n, last)
      PROVE  CreditInv'
  BY <1>5, <1>s, InChargeKept, CreditKept DEF SubmitOverride
<1>6. CASE CancelRun
  BY <1>6, <1>s, InChargeKept, CreditKept DEF CancelRun
<1>7. CASE HaltSession
  BY <1>7, <1>s, InChargeKept, CreditKept DEF HaltSession, EngineHalted
<1>8. QED
  BY <1>1, <1>2, <1>3, <1>4, <1>5, <1>6, <1>7 DEF Clients

LEMMA CreditDecide ==
  ASSUME TypeInv, CreditInv, NEW p \in Steppers, Decide(p)
  PROVE  CreditInv'
<1>s. sched \in SchedulerStates /\ step \in [Steppers -> Steps] /\ submitted \in Nat
  BY DEF TypeInv, TypeOK
<1>d. step[p].phase = "deciding"
  BY DEF Decide, DecideContinue, DecideOverride, DecideTyped, DecideTypedDrained,
         DecideScript, DecideScriptComplete, DecideScriptFails
<1>r. p = Runner
  BY <1>d, StepIsRunners DEF CreditInv
<1>1. CASE DecideContinue(p)
  <2>1. sched' = sched /\ StartIo(Runner, InCharge(sched).env)
    BY <1>1, <1>r DEF DecideContinue, InCharge, InterruptBusy, engine
  <2>2. QED
    BY <1>s, <2>1, CreditTaken
<1>2. CASE DecideOverride(p)
  <2> DEFINE s == ReplaceInterruptPolicy(sched, "client_return_to_origin",
                                         "client_return_to_origin_ready")
  <2>1. s \in SchedulerStates /\ CanStartInterrupt(s)
    BY <1>2, <1>s, ReplaceInterruptPolicyType, ReplaceInterruptPolicyKeepsLength
       DEF DecideOverride, CanStartInterrupt, Policies
  <2>2. sched' = StartInterrupt(s) /\ StartIo(Runner, sched'.interrupt.env)
    BY <1>2, <1>r DEF DecideOverride
  <2> HIDE DEF s
  <2>3. sched'.interrupt # None
    BY <2>1, <2>2, StartInterruptStarts, StartedIsRunning, FieldTypes DEF CanStartInterrupt
  <2>4. InCharge(sched') = sched'.interrupt
    BY <2>3 DEF InCharge
  <2>5. QED
    BY <1>s, <2>2, <2>4, CreditTaken
<1>3. CASE DecideTyped(p)
  <2>1. sched' = StartNormal(sched) /\ StartIo(Runner, sched'.running.env) /\ sched.interrupt = None
    BY <1>3, <1>r DEF DecideTyped, LaneIdle, InterruptBusy
  <2>2. sched'.interrupt = None
    BY <1>s, <2>1 DEF StartNormal, SchedulerStates
  <2>3. InCharge(sched') = sched'.running
    BY <2>2 DEF InCharge
  <2>4. QED
    BY <1>s, <2>1, <2>3, CreditTaken
<1>4. CASE DecideScript(p)
  <2> DEFINE b == Batch(1, "script", "script")
             s == AppendBatch(sched, b)
  <2>1. sched' = StartNext(s) /\ StartIo(Runner, sched'.running.env) /\ LaneIdle /\ Available(1)
    BY <1>4, <1>r DEF DecideScript
  <2>2. b \in Seq(Envelopes) /\ b # <<>>
    BY <1>s, <2>1, BatchType DEF Policies
  <2> HIDE DEF b
  <2>3. s \in SchedulerStates /\ CanStartNormal(s)
    BY <1>s, <2>1, <2>2, AppendBatchType, AppendBatchStartable DEF LaneIdle
  <2> HIDE DEF s
  <2>4. sched' = StartNormal(s)
    BY <2>1, <2>3 DEF StartNext, CanStartNormal, CanStartInterrupt, InterruptBusy
  <2>5. sched'.interrupt = None
    BY <2>3, <2>4 DEF StartNormal, SchedulerStates, CanStartNormal, InterruptBusy
  <2>6. InCharge(sched') = sched'.running
    BY <2>5 DEF InCharge
  <2>7. QED
    BY <1>s, <2>1, <2>6, CreditTaken
<1>5. CASE DecideTypedDrained(p) \/ DecideScriptComplete(p) \/ DecideScriptFails(p)
  BY <1>5, <1>r, <1>s, CreditLeft
     DEF DecideTypedDrained, DecideScriptComplete, DecideScriptFails, StepError
<1>6. QED
  BY <1>1, <1>2, <1>3, <1>4, <1>5 DEF Decide

\* Every other step takes the runner out of its I/O, or nowhere.
LEMMA CreditStep == TypeInv /\ CreditInv /\ [Next]_vars => CreditInv'
<1> SUFFICES ASSUME TypeInv, CreditInv, [Next]_vars
             PROVE  CreditInv'
  OBVIOUS
<1>s. step \in [Steppers -> Steps]
  BY DEF TypeInv, TypeOK
<1>a. RunnerStepsAlone
  BY DEF CreditInv
<1>1. ASSUME NEW p \in Steppers, Apply(p)
      PROVE  CreditInv'
  <2>1. p = Runner
    BY <1>1, <1>a, StepIsRunners
       DEF Apply, ResultPaused, ResultCompleted, ResultHalt, ResultFailed
  <2>2. QED
    BY <1>1, <1>s, <2>1, CreditLeft
       DEF Apply, ResultPaused, ResultCompleted, ResultHalt, ResultFailed, NextStep, StepError
<1>2. ASSUME NEW p \in Steppers, DropStep(p)
      PROVE  CreditInv'
  <2>1. p = Runner
    BY <1>2, <1>a, StepIsRunners DEF DropStep
  <2>2. QED
    BY <1>2, <1>s, <2>1, CreditLeft DEF DropStep
<1>3. CASE StartRunner \/ FailRun
  BY <1>3, <1>s, CreditLeft DEF StartRunner, FailRun
<1>4. CASE Restart
  BY <1>4 DEF Restart, CreditInv, RunnerStepsAlone, StepHoldsItsAction, At, Steppers
<1>5. CASE UNCHANGED vars
  BY <1>5, CreditKept DEF vars, engine
<1>6. QED
  BY <1>1, <1>2, <1>3, <1>4, <1>5, CreditClients, CreditDecide DEF Next

LEMMA CreditInvariant == Spec => []CreditInv
<1>1. Init => CreditInv
  BY DEF Init, CreditInv, RunnerStepsAlone, StepHoldsItsAction, At, Steppers
<1>2. QED
  BY <1>1, CreditStep, TypeInvariant, SpecIsSpecBesideHosts, PTL DEF Spec

\* A log that extends another by cancellations only, which is what a halt does.
CancelledSince(log, longer) ==
  /\ longer \in Seq(Completed) /\ Len(log) <= Len(longer)
  /\ \A i \in 1..Len(log) : longer[i] = log[i]
  /\ \A i \in 1..Len(longer) : i > Len(log) => longer[i].outcome = "cancelled"

LEMMA CancelledTwice ==
  ASSUME NEW log \in Seq(Completed), NEW longer, NEW longest,
         CancelledSince(log, longer), CancelledSince(longer, longest)
  PROVE  CancelledSince(log, longest)
<1>1. Len(log) \in Nat /\ Len(longer) \in Nat /\ Len(longest) \in Nat
  BY LenProperties DEF CancelledSince
<1>2. QED
  BY <1>1 DEF CancelledSince

LEMMA SlotCleared ==
  ASSUME NEW log \in Seq(Completed), NEW r \in Running \cup {None}
  PROVE  CancelledSince(log, log \o CancelRecord(r))
<1> DEFINE more == CancelRecord(r)
<1>1. more \in Seq(Completed)
  BY CancelRecordType
<1>2. \A i \in 1..Len(more) : more[i].outcome = "cancelled"
  BY DEF CancelRecord
<1> HIDE DEF more
<1>3. /\ Len(log) \in Nat /\ Len(more) \in Nat
      /\ log \o more \in Seq(Completed) /\ Len(log \o more) = Len(log) + Len(more)
      /\ \A i \in 1..Len(log) : (log \o more)[i] = log[i]
  BY <1>1, ConcatProperties, LenProperties
<1>4. ASSUME NEW i \in 1..(Len(log) + Len(more)), i > Len(log)
      PROVE  (log \o more)[i].outcome = "cancelled"
  <2>1. i - Len(log) \in 1..Len(more)
    BY <1>3, <1>4
  <2>2. (log \o more)[i] = more[i - Len(log)]
    BY <1>1, <1>3, <1>4, ConcatProperties
  <2>3. QED
    BY <1>2, <2>1, <2>2
<1>5. CancelledSince(log, log \o more)
  BY <1>3, <1>4 DEF CancelledSince
<1>6. QED
  BY <1>5 DEF more

LEMMA HaltLog ==
  ASSUME NEW s \in SchedulerStates
  PROVE  CancelledSince(s.completed, Halt(s).completed)
<1> DEFINE first == s.completed \o CancelRecord(s.running)
           both  == first \o CancelRecord(s.interrupt)
<1>1. CancelledSince(s.completed, first)
  BY FieldTypes, SlotCleared
<1>2. first \in Seq(Completed)
  BY <1>1 DEF CancelledSince
<1>3. Halt(s).completed = both
  BY DEF Halt, Invalidate, SchedulerStates
<1> HIDE DEF first
<1>4. CancelledSince(first, both)
  BY <1>2, FieldTypes, SlotCleared
<1> HIDE DEF both
<1>5. QED
  BY <1>1, <1>3, <1>4, FieldTypes, CancelledTwice

\* A completion is logged for the action in charge, and for nothing if there is none.
LEMMA ResultLogged ==
  ASSUME NEW s \in SchedulerStates
  PROVE  LET t == Complete(s, IF s.interrupt # None THEN "interrupt" ELSE "normal", "succeeded") IN
         IF InCharge(s) = None THEN t = s
         ELSE /\ Len(t.completed) = Len(s.completed) + 1
              /\ t.completed[Len(s.completed) + 1].env = InCharge(s).env
<1> DEFINE t == Complete(s, IF s.interrupt # None THEN "interrupt" ELSE "normal", "succeeded")
           rec == [env |-> InCharge(s).env, outcome |-> "succeeded"]
<1>1. InCharge(s) = None => t = s
  BY DEF InCharge, Complete
<1>2. ASSUME InCharge(s) # None
      PROVE  /\ Len(t.completed) = Len(s.completed) + 1
             /\ t.completed[Len(s.completed) + 1].env = InCharge(s).env
  <2>1. t.completed = Append(s.completed, rec)
    BY <1>2 DEF InCharge, Complete, CompleteNormal, CompleteInterrupt, SchedulerStates
  <2>2. rec \in Completed /\ rec.env = InCharge(s).env
    BY <1>2, FieldTypes DEF InCharge, Running, Completed, Outcomes
  <2> HIDE DEF t, rec
  <2>3. QED
    BY <2>1, <2>2, FieldTypes, AppendProperties
<1>3. QED
  BY <1>1, <1>2

\* execute_result credits a result to whatever runs when it arrives.  Where the runner
\* steps alone that is the action the step was executing, or nothing, whatever the
\* clients did during its game calls.
THEOREM CreditGoesToItsAction == Spec => ResultCreditsItsAction
<1>1. TypeInv /\ CreditInv /\ [Next]_vars
        => [\A p \in Steppers :
              /\ step[p].phase = "io" /\ step'[p].phase # "io"
              /\ Len(sched'.completed) > Len(sched.completed)
              /\ sched'.completed[Len(sched.completed) + 1].outcome = "succeeded"
              => sched'.completed[Len(sched.completed) + 1].env = step[p].env]_vars
  <2> DEFINE n == Len(sched.completed) + 1
  <2> SUFFICES ASSUME TypeInv, CreditInv, Next, NEW p \in Steppers,
                      step[p].phase = "io", step'[p].phase # "io",
                      Len(sched'.completed) > Len(sched.completed),
                      sched'.completed[n].outcome = "succeeded"
               PROVE  sched'.completed[n].env = step[p].env
    OBVIOUS
  <2>s. sched \in SchedulerStates /\ step \in [Steppers -> Steps]
    BY DEF TypeInv, TypeOK
  <2>l. sched.completed \in Seq(Completed) /\ Len(sched.completed) \in Nat
    BY <2>s, FieldTypes, LenProperties
  <2>r. p = Runner /\ RunnerStepsAlone
    BY StepIsRunners DEF CreditInv
  <2>c. InCharge(sched) # None => InCharge(sched).env = step[p].env
    BY <2>r DEF CreditInv, StepHoldsItsAction
  \* An entry logged by a halt is no success.
  <2>h. ASSUME CancelledSince(sched.completed, sched'.completed)
        PROVE  FALSE
    <3>1. Len(sched'.completed) \in Nat
      BY <2>h, LenProperties DEF CancelledSince
    <3>2. n \in 1..Len(sched'.completed) /\ n > Len(sched.completed)
      BY <2>l, <3>1
    <3>3. QED
      BY <2>h, <3>2 DEF CancelledSince
  <2>1. CASE Clients
    BY <2>1 DEF Clients, BeginSetScript, SetScript, AcquireRun, SubmitBatch, SubmitOverride,
                CancelRun, HaltSession
  <2>2. CASE StartRunner \/ FailRun
    BY <2>2, <2>r DEF StartRunner, RunnerOff, FailRun
  <2>3. ASSUME NEW q \in Steppers, Decide(q)
        PROVE  FALSE
    <3>1. step[q].phase = "deciding"
      BY <2>3 DEF Decide, DecideContinue, DecideOverride, DecideTyped, DecideTypedDrained,
                  DecideScript, DecideScriptComplete, DecideScriptFails
    <3>2. QED
      BY <2>r, <3>1, StepIsRunners
  <2>4. ASSUME NEW q \in Steppers, Apply(q)
        PROVE  sched'.completed[n].env = step[p].env
    <3> DEFINE s == Complete(sched, ResultLane, "succeeded")
    <3>q. q = p
      BY <2>4, <2>r, StepIsRunners
         DEF Apply, ResultPaused, ResultCompleted, ResultHalt, ResultFailed
    <3>c. IF InCharge(sched) = None THEN s = sched
          ELSE Len(s.completed) = n /\ s.completed[n].env = step[p].env
      BY <2>c, <2>s, ResultLogged DEF ResultLane
    <3>t. s \in SchedulerStates /\ s.completed \in Seq(Completed) /\ Len(s.completed) \in Nat
      BY <2>s, ResultLaneType, CompleteType, FieldTypes, LenProperties DEF Outcomes
    <3>1. CASE ResultPaused(q)
      BY <2>l, <2>s, <3>1, LogKept DEF ResultPaused, Ticked
    <3>2. CASE ResultCompleted(q)
      <4>1. sched' = IF RunDrained(s) /\ queueClaim # None THEN Release(s) ELSE s
        BY <3>2 DEF ResultCompleted
      <4> HIDE DEF s
      <4>2. sched'.completed = s.completed
        BY <3>t, <4>1, LogKept DEF Release
      <4>3. QED
        BY <2>l, <3>c, <4>2
    <3>3. CASE ResultHalt(q)
      <4>1. sched' = Halt(Halt(s))
        BY <3>3 DEF ResultHalt, EngineHalted
      <4> HIDE DEF s
      <4>2. CancelledSince(s.completed, sched'.completed)
        BY <3>t, <4>1, HaltType, HaltLog, CancelledTwice
      <4>3. CASE InCharge(sched) = None
        BY <2>h, <3>c, <4>2, <4>3
      <4>4. CASE InCharge(sched) # None
        <5>1. n \in 1..Len(s.completed)
          BY <2>l, <3>c, <4>4
        <5>2. sched'.completed[n] = s.completed[n]
          BY <4>2, <5>1 DEF CancelledSince
        <5>3. QED
          BY <3>c, <4>4, <5>2
      <4>5. QED
        BY <4>3, <4>4
    <3>4. CASE ResultFailed(q)
      <4>1. PICK k \in PlannerContinuations(q) : sched' = Halt(Ticked(k))
        BY <3>4 DEF ResultFailed, EngineHalted
      <4>2. k \in Continuations \cup {None}
        BY <3>4, PlannerContinuationsType DEF ResultFailed, StepsTyped, TypeInv, TypeOK
      <4>3. Ticked(k) \in SchedulerStates /\ Ticked(k).completed = sched.completed
        BY <2>s, <4>2, ResultLaneType, SetContinuationType, LogKept DEF Ticked
      <4>4. QED
        BY <2>h, <4>1, <4>3, HaltLog
    <3>5. QED
      BY <2>4, <3>1, <3>2, <3>3, <3>4 DEF Apply
  <2>5. CASE Restart \/ \E q \in Steppers : DropStep(q)
    BY <2>5, <2>l, <2>s, LogKept DEF Restart, DropStep, engine
  <2>6. QED
    BY <2>1, <2>2, <2>3, <2>4, <2>5 DEF Next
<1>2. QED
  BY <1>1, TypeInvariant, CreditInvariant, SpecIsSpecBesideHosts, PTL
     DEF Spec, ResultCreditsItsAction

-----------------------------------------------------------------------------
(* The service implements the engine. *)

LEMMA RunnerIsStepper == Runner \in Steppers
BY DEF Steppers

LEMMA EngineStep == [SessionNext]_svars => [Next]_vars
<1> SUFFICES ASSUME [SessionNext]_svars PROVE [Next]_vars
  OBVIOUS
<1>1. CASE UNCHANGED svars
  BY <1>1 DEF svars
<1>2. ASSUME NEW r \in Runs, StartActions(r) \/ CancelAccepted(r)
      PROVE  [Next]_vars
  <2>1. CASE ArchiveFirst(r) \/ EnsureRunner(r) \/ RegisterActionRunner(r)
    BY <2>1 DEF ArchiveFirst, EnsureRunner, RegisterActionRunner
  <2>2. CASE AcquireLane(r)
    BY <2>2 DEF AcquireLane, Next, Clients
  <2>3. CASE Submit(r)
    BY <2>3 DEF Submit, Next, Clients
  <2>4. ASSUME IsCurrent(r), CancelAction(r) PROVE [Next]_vars
    BY <2>4 DEF CancelAction, Next, Clients
  <2>5. CASE Withdraw(r)
    BY <2>4, <2>5 DEF Withdraw
  <2>6. CASE CancelAccepted(r)
    BY <2>4, <2>6 DEF CancelAccepted
  <2>7. QED
    BY <1>2, <2>1, <2>2, <2>3, <2>5, <2>6 DEF StartActions
<1>3. CASE HaltCall
  BY <1>3 DEF HaltCall, Next, Clients
<1>4. CASE OverrideCall
  <2>1. 1 \in 1..MaxBatch
    BY SessionAssumption, EngineAssumption
  <2>2. QED
    BY <1>4, <2>1 DEF OverrideCall, Next, Clients
<1>5. CASE Background
  BY <1>5 DEF Background, NotifyHalt, RegisterOverrideRunner, ArchiveLast
<1>6. CASE RunnerStep
  <2>1. CASE BeginLoop
    BY <2>1 DEF BeginLoop, Next
  <2>2. CASE Prefetch \/ EndLoop
    BY <2>2 DEF Prefetch, EndLoop
  <2>3. CASE LoopDecide
    BY <2>3, RunnerIsStepper DEF LoopDecide, Next
  <2>4. CASE LoopEnds \/ LoopApplies \/ LoopHaltAction
    BY <2>4, RunnerIsStepper DEF LoopEnds, LoopApplies, LoopHaltAction, Next, Apply
  <2>5. CASE LoopDrops
    BY <2>5, RunnerIsStepper DEF LoopDrops, Next
  <2>6. QED
    BY <1>6, <2>1, <2>2, <2>3, <2>4, <2>5 DEF RunnerStep
<1>7. QED
  BY <1>1, <1>2, <1>3, <1>4, <1>5, <1>6 DEF SessionNext

\* Every step of the service is a step of the engine or none: no client, however stale
\* its claim, makes the engine do what RuntimeEngine does not allow.
THEOREM ServiceImplementsEngine == SafetySpec => ImplementsEngine
<1>1. SessionInit => Init
  BY DEF SessionInit
<1>2. QED
  BY <1>1, EngineStep, PTL DEF SafetySpec, ImplementsEngine, Spec

\* What the engine guarantees is therefore guaranteed in the service.
EngineInv == TypeInv /\ ClaimAgreement /\ OwnershipInv

LEMMA EngineInvariant == SafetySpec => []EngineInv
<1>1. SafetySpec => Spec
  BY ServiceImplementsEngine DEF ImplementsEngine
<1>2. QED
  BY <1>1, SpecIsSpecBesideHosts, TypeInvariant, ClaimAgreementInvariant, OwnershipInvariant, PTL DEF EngineInv

-----------------------------------------------------------------------------
(* Accepted work has a runner. *)

\* Who is registered has a task, and the other way round.
ServiceTypeOK ==
  /\ registry \in Registrations \cup {None} /\ runner \in RunnerStates
  /\ registry = None <=> runner.phase = "none"
  /\ client \in [Runs -> ClientPhases] /\ lane \in [Runs -> QueueClaims \cup {None}]

\* A client holds claims of its own run, and no script ever owns the lane here.
ClaimsHeld ==
  /\ \A r \in Runs : lane[r] # None => lane[r].owner = r
  /\ queueClaim # None => queueClaim.owner \in Runs

\* Who owns the lane is a run that is not over.
OwnerIsLive ==
  queueClaim # None => actionRun # None /\ actionRun.id = queueClaim.owner /\ actionRun.outcome = None

\* Work whose client was told it runs is looked after by a runner that goes on.
Covered ==
  Work(sched) # {} /\ client[queueClaim.owner] = "accepted" => registry # None /\ registry.kind = "action"

\* Whose client has not submitted yet, has a run without actions.
EmptyUntilSubmitted ==
  actionRun # None /\ client[actionRun.id] \in {"new", "archived", "acquired"} => actionRun.actions = <<>>

ServiceInv == ServiceTypeOK /\ ClaimsHeld /\ OwnerIsLive /\ Covered /\ EmptyUntilSubmitted

\* Between an acquisition and a submission the engine only works off what is there.
Narrows ==
  \/ queueClaim' = None /\ Work(sched)' = {}
  \/ queueClaim' = queueClaim /\ Work(sched)' \subseteq Work(sched) /\ actionRun' = actionRun
RunKept ==
  actionRun' # None => actionRun # None /\ actionRun'.id = actionRun.id /\ actionRun'.actions = actionRun.actions

LEMMA EngineAtRest == UNCHANGED vars => Narrows /\ RunKept
<1> SUFFICES ASSUME UNCHANGED vars PROVE Narrows /\ RunKept
  OBVIOUS
<1>1. UNCHANGED <<sched, queueClaim, actionRun>>
  BY DEF vars, engine
<1>2. Work(sched)' = Work(sched)
  BY <1>1 DEF Work, Ids, RunningIds
<1>3. QED
  BY <1>1, <1>2 DEF Narrows, RunKept

LEMMA CancelNarrows == ASSUME EngineInv, CancelRun PROVE Narrows /\ RunKept
<1>1. /\ sched \in SchedulerStates /\ actionRun \in ActionRuns
  BY DEF EngineInv, TypeInv, TypeOK, CancelRun
<1>2. RunKept
  BY <1>1 DEF CancelRun, RunKept, ActionRuns
<1>3. CASE Authorized(sched, queueClaim)
  BY <1>1, <1>2, <1>3, WorkDropped DEF CancelRun, Narrows
<1>4. CASE ~Authorized(sched, queueClaim)
  <2>1. queueClaim = None /\ queueClaim' = None /\ sched' = sched
    BY <1>4 DEF CancelRun, Authorized, EngineInv, ClaimAgreement
  <2>2. Work(sched) = {}
    BY <2>1, OwnershipDef DEF EngineInv, OwnershipInv
  <2>3. QED
    BY <1>2, <2>1, <2>2 DEF Narrows, Work
<1>5. QED
  BY <1>3, <1>4

LEMMA ClientsNarrow ==
  ASSUME EngineInv, HaltSession \/ (\E n \in Nat : SubmitOverride(n, "client"))
  PROVE  Narrows /\ RunKept
<1>1. sched \in SchedulerStates
  BY DEF EngineInv, TypeInv, TypeOK
<1>2. CASE HaltSession
  BY <1>1, <1>2, WorkDropped DEF HaltSession, EngineHalted, Narrows, RunKept
<1>3. CASE \E n \in Nat : SubmitOverride(n, "client")
  BY <1>1, <1>3, WorkKept DEF SubmitOverride, Narrows, RunKept
<1>4. QED
  BY <1>2, <1>3

LEMMA DecideNarrows ==
  ASSUME EngineInv, OwnerIsLive, NEW p \in Steppers, Decide(p)
  PROVE  Narrows /\ RunKept
<1>s. sched \in SchedulerStates
  BY DEF EngineInv, TypeInv, TypeOK
<1>1. CASE DecideContinue(p) \/ DecideTypedDrained(p) \/ DecideScriptFails(p)
  <2>1. UNCHANGED <<sched, queueClaim, actionRun>>
    BY <1>1 DEF DecideContinue, DecideTypedDrained, DecideScriptFails, engine
  <2>2. Work(sched)' = Work(sched)
    BY <2>1 DEF Work, Ids, RunningIds
  <2>3. QED
    BY <2>1, <2>2 DEF Narrows, RunKept
<1>2. CASE DecideOverride(p)
  <2> DEFINE s == ReplaceInterruptPolicy(sched, "client_return_to_origin", "client_return_to_origin_ready")
  <2>1. s \in SchedulerStates /\ Work(s) = Work(sched)
    BY <1>s, ReplaceInterruptPolicyType, WorkKept DEF Policies
  <2>2. sched' = StartInterrupt(s) /\ UNCHANGED <<queueClaim, actionRun>>
    BY <1>2 DEF DecideOverride
  <2> HIDE DEF s
  <2>3. Work(sched)' = Work(sched)
    BY <2>1, <2>2, WorkKept
  <2>4. QED
    BY <2>2, <2>3 DEF Narrows, RunKept
<1>3. CASE DecideTyped(p)
  <2>1. CanStartNormal(sched)
    BY <1>3 DEF DecideTyped, LaneIdle, CanStartNormal
  <2>2. Work(sched)' = Work(sched)
    BY <1>3, <1>s, <2>1, WorkStarted DEF DecideTyped
  <2>3. QED
    BY <1>3, <2>2 DEF DecideTyped, Narrows, RunKept
<1>4. CASE DecideScript(p)
  BY <1>4 DEF DecideScript, OwnerIsLive
<1>5. CASE DecideScriptComplete(p)
  <2>1. queueClaim = None /\ UNCHANGED <<sched, queueClaim, actionRun>>
    BY <1>5 DEF DecideScriptComplete, OwnerIsLive
  <2>2. Work(sched)' = Work(sched)
    BY <2>1 DEF Work, Ids, RunningIds
  <2>3. QED
    BY <2>1, <2>2 DEF Narrows, RunKept
<1>6. QED
  BY <1>1, <1>2, <1>3, <1>4, <1>5 DEF Decide

LEMMA ApplyNarrows ==
  ASSUME EngineInv, NEW p \in Steppers, Apply(p)
  PROVE  Narrows /\ RunKept
<1>s. sched \in SchedulerStates /\ actionRun \in ActionRuns \cup {None}
  BY DEF EngineInv, TypeInv, TypeOK
<1> DEFINE s == Complete(sched, ResultLane, "succeeded")
<1>c. /\ s \in SchedulerStates /\ Work(s) \subseteq Work(sched) /\ s.pending = sched.pending
      /\ ResultLane = "normal" => s.running = None
  BY <1>s, ResultLaneType, CompleteType, WorkCompleted DEF Outcomes
<1>k. \A k \in PlannerContinuations(p) : step[p].phase = "io" => k \in Continuations \cup {None}
  BY PlannerContinuationsType DEF StepsTyped, EngineInv, TypeInv, TypeOK
<1>r. ASSUME NEW t, actionRun' = RunSucceeded(t) PROVE RunKept
  BY <1>s, <1>r DEF RunSucceeded, RunDrained, RunKept, ActionRuns
<1>1. CASE ResultPaused(p)
  <2>1. PICK k \in PlannerContinuations(p) : sched' = Ticked(k)
    BY <1>1 DEF ResultPaused
  <2>2. Work(sched)' = Work(sched)
    BY <1>1, <1>s, <1>k, <2>1, WorkTicked DEF ResultPaused, Ticked
  <2>3. QED
    BY <1>1, <2>2 DEF ResultPaused, Narrows, RunKept
<1>2. CASE ResultCompleted(p)
  <2>1. /\ sched' = IF RunDrained(s) /\ queueClaim # None THEN Release(s) ELSE s
        /\ queueClaim' = IF RunDrained(s) THEN None ELSE queueClaim
        /\ actionRun' = RunSucceeded(s)
    BY <1>2 DEF ResultCompleted
  <2> HIDE DEF s
  <2>2. Work(sched)' = Work(s)
    BY <1>c, <2>1, WorkKept DEF Release
  <2>3. CASE RunDrained(s)
    <3>1. Work(s) = {}
      BY <1>c, <2>3, NoIds DEF RunDrained, Work
    <3>2. QED
      BY <1>r, <2>1, <2>2, <2>3, <3>1 DEF Narrows
  <2>4. CASE ~RunDrained(s)
    <3>1. queueClaim' = queueClaim /\ actionRun' = actionRun
      BY <2>1, <2>4 DEF RunSucceeded
    <3>2. QED
      BY <1>c, <1>r, <2>1, <2>2, <3>1 DEF Narrows
  <2>5. QED
    BY <2>3, <2>4
<1>3. CASE ResultHalt(p)
  <2>1. Halt(s) \in SchedulerStates /\ sched' = Halt(Halt(s)) /\ queueClaim' = None /\ actionRun' = RunSucceeded(Halt(s))
    BY <1>3, <1>c, HaltType DEF ResultHalt, EngineHalted
  <2>2. QED
    BY <1>r, <2>1, WorkDropped DEF Narrows
<1>4. CASE ResultFailed(p)
  <2>1. PICK k \in PlannerContinuations(p) : sched' = Halt(Ticked(k)) /\ queueClaim' = None
    BY <1>4 DEF ResultFailed, EngineHalted
  <2>2. Ticked(k) \in SchedulerStates
    BY <1>4, <1>s, <1>k, ResultLaneType, SetContinuationType DEF ResultFailed, Ticked
  <2>3. QED
    BY <1>4, <2>1, <2>2, WorkDropped DEF ResultFailed, Narrows, RunKept
<1>5. QED
  BY <1>1, <1>2, <1>3, <1>4 DEF Apply

LEMMA FailNarrows == ASSUME EngineInv, FailRun PROVE Narrows /\ RunKept
<1>1. sched \in SchedulerStates /\ actionRun \in ActionRuns \cup {None}
  BY DEF EngineInv, TypeInv, TypeOK
<1>2. CASE actionRun # None /\ actionRun.outcome = None
  BY <1>1, <1>2, WorkDropped DEF FailRun, EngineHalted, Narrows, RunKept, ActionRuns
<1>3. CASE ~(actionRun # None /\ actionRun.outcome = None)
  BY <1>3 DEF FailRun, engine, Narrows, RunKept, Work
<1>4. QED
  BY <1>2, <1>3

-----------------------------------------------------------------------------
(* The steps of the service. *)

Renews(entry) == entry # None /\ entry.kind = "action"

\* Steps that neither hand out a claim nor submit, nor take the runner of accepted work away.
LEMMA ServiceKeeps ==
  ASSUME EngineInv, EngineInv', ServiceInv, Narrows, RunKept, UNCHANGED lane, ServiceTypeOK',
         \A r \in Runs : client'[r] = "accepted" => client[r] = "accepted" \/ Renews(registry'),
         \A r \in Runs : client'[r] \in {"new", "archived", "acquired"} => client[r] \in {"new", "archived", "acquired"},
         Renews(registry) => Renews(registry')
  PROVE  ServiceInv'
<1>1. ClaimsHeld'
  BY DEF ServiceInv, ClaimsHeld, Narrows
<1>2. OwnerIsLive'
  BY DEF ServiceInv, OwnerIsLive, Narrows
<1>3. Covered'
  <2> SUFFICES ASSUME Work(sched)' # {}, client'[queueClaim'.owner] = "accepted"
               PROVE  Renews(registry')
    BY DEF Covered, Renews
  <2>1. queueClaim' = queueClaim /\ Work(sched) # {}
    BY DEF Narrows
  <2>2. queueClaim # None
    BY <2>1, OwnershipDef DEF EngineInv, OwnershipInv
  <2>3. queueClaim.owner \in Runs
    BY <2>2 DEF ServiceInv, ClaimsHeld
  <2>4. QED
    BY <2>1, <2>3 DEF ServiceInv, Covered, Renews
<1>4. EmptyUntilSubmitted'
  <2>1. actionRun' # None => actionRun'.id \in Runs
    BY DEF EngineInv, TypeInv, TypeOK, ActionRuns
  <2>2. QED
    BY <2>1 DEF ServiceInv, EmptyUntilSubmitted, RunKept
<1>5. QED
  BY <1>1, <1>2, <1>3, <1>4 DEF ServiceInv

LEMMA RegistrationTypes ==
  /\ \A k \in {"action", "override"} : [kind |-> k, generation |-> 0, halted |-> FALSE] \in Registrations
  /\ \A e \in Registrations : /\ e # None
                              /\ [e EXCEPT !.generation = @ + 1] \in Registrations
                              /\ [e EXCEPT !.halted = TRUE] \in Registrations
                              /\ [e EXCEPT !.generation = @ + 1].kind = e.kind
                              /\ [e EXCEPT !.halted = TRUE].kind = e.kind
<1>1. \A k \in {"action", "override"} : [kind |-> k, generation |-> 0, halted |-> FALSE] \in Registrations
  BY DEF Registrations
<1>2. ASSUME NEW e \in Registrations
      PROVE  /\ e # None
             /\ [e EXCEPT !.generation = @ + 1] \in Registrations
             /\ [e EXCEPT !.halted = TRUE] \in Registrations
             /\ [e EXCEPT !.generation = @ + 1].kind = e.kind
             /\ [e EXCEPT !.halted = TRUE].kind = e.kind
  <2>1. e # None
    BY NoRegistrationAssumption
  <2>2. e.generation + 1 \in Nat
    BY DEF Registrations
  <2>3. QED
    BY <2>1, <2>2 DEF Registrations
<1>3. QED
  BY <1>1, <1>2

LEMMA ClientBecomes ==
  ASSUME ServiceTypeOK, NEW r \in Runs, NEW phase \in ClientPhases, Becomes(r, phase)
  PROVE  /\ client' \in [Runs -> ClientPhases] /\ client'[r] = phase
         /\ \A q \in Runs \ {r} : client'[q] = client[q]
BY DEF ServiceTypeOK, Becomes

LEMMA CancelKeeps ==
  ASSUME EngineInv, NEW r \in Runs, IsCurrent(r), CancelAction(r)
  PROVE  Narrows /\ RunKept
<1>1. CASE actionRun.outcome = None
  BY <1>1, CancelNarrows DEF CancelAction
<1>2. CASE actionRun.outcome # None
  BY <1>2, EngineAtRest DEF CancelAction
<1>3. QED
  BY <1>1, <1>2

\* A new owner: its lane is empty, its run has no actions, and its client is not told
\* that it runs.
LEMMA AcquireKeeps ==
  ASSUME EngineInv, EngineInv', ServiceInv, NEW r \in Runs, AcquireLane(r)
  PROVE  ServiceInv'
<1>1. ServiceTypeOK /\ client[r] = "archived" /\ UNCHANGED <<registry, runner>> /\ {"acquired", "new"} \subseteq ClientPhases
  BY DEF AcquireLane, ServiceInv, ClientPhases
<1>2. CASE AcquireRun(r) /\ Becomes(r, "acquired") /\ lane' = [lane EXCEPT ![r] = sched'.claim]
  <2>1. /\ client' \in [Runs -> ClientPhases] /\ client'[r] = "acquired"
        /\ \A q \in Runs \ {r} : client'[q] = client[q]
    BY <1>1, <1>2, ClientBecomes
  <2>2. sched \in SchedulerStates /\ sched' \in SchedulerStates
    BY DEF EngineInv, TypeInv, TypeOK
  <2>3. /\ sched'.claim = [owner |-> r, generation |-> sched.generation + 1]
        /\ queueClaim' = sched'.claim
        /\ actionRun' = [id |-> r, actions |-> << >>, outcome |-> None]
    BY <1>2, <2>2 DEF AcquireRun, Claim, SchedulerStates
  <2>4. sched'.claim \in QueueClaims /\ sched'.claim # None
    BY <2>2, <2>3, FieldTypes, NoneAssumption, EngineAssumption DEF QueueClaims
  <2>5. ServiceTypeOK'
    BY <1>1, <1>2, <2>1, <2>4 DEF ServiceTypeOK
  <2>6. ClaimsHeld'
    BY <1>1, <1>2, <2>3, <2>4 DEF ServiceInv, ClaimsHeld, ServiceTypeOK
  <2>7. OwnerIsLive'
    <3>1. [id |-> r, actions |-> << >>, outcome |-> None] # None
      BY RunIsNotNone, EmptySeq
    <3>2. actionRun' # None /\ actionRun'.id = r /\ actionRun'.outcome = None /\ queueClaim'.owner = r
      BY <2>3, <3>1
    <3>3. QED
      BY <3>2 DEF OwnerIsLive
  <2>8. Covered'
    BY <2>1, <2>3 DEF Covered
  <2>9. EmptyUntilSubmitted'
    BY <2>3 DEF EmptyUntilSubmitted
  <2>10. QED
    BY <2>5, <2>6, <2>7, <2>8, <2>9 DEF ServiceInv
<1>3. CASE Becomes(r, "new") /\ UNCHANGED <<vars, lane>>
  <2>1. /\ client' \in [Runs -> ClientPhases] /\ client'[r] = "new"
        /\ \A q \in Runs \ {r} : client'[q] = client[q]
    BY <1>1, <1>3, ClientBecomes
  <2>2. ServiceTypeOK'
    BY <1>1, <1>3, <2>1 DEF ServiceTypeOK
  <2>3. QED
    BY <1>1, <1>3, <2>1, <2>2, EngineAtRest, ServiceKeeps
<1>4. QED
  BY <1>2, <1>3 DEF AcquireLane

\* A claim that is still good is good for the run of the client that holds it.
LEMMA GoodClaim ==
  ASSUME EngineInv, ServiceInv, NEW r \in Runs, client[r] = "acquired", Authorized(sched, lane[r])
  PROVE  /\ Authorized(sched, queueClaim) /\ queueClaim.owner = r
         /\ actionRun # None /\ actionRun.id = r /\ actionRun.actions = << >>
<1>1. queueClaim = lane[r] /\ lane[r] # None /\ queueClaim.owner = r
  BY DEF Authorized, EngineInv, ClaimAgreement, ServiceInv, ClaimsHeld
<1>2. actionRun # None /\ actionRun.id = r
  BY <1>1 DEF ServiceInv, OwnerIsLive
<1>3. QED
  BY <1>1, <1>2 DEF Authorized, ServiceInv, EmptyUntilSubmitted, EngineInv, ClaimAgreement

LEMMA SubmitKeeps ==
  ASSUME EngineInv, EngineInv', ServiceInv, NEW r \in Runs, Submit(r)
  PROVE  ServiceInv'
<1>1. ServiceTypeOK /\ client[r] = "acquired" /\ UNCHANGED <<registry, runner, lane>>
      /\ {"submitted", "withdrawing"} \subseteq ClientPhases
  BY DEF Submit, ServiceInv, ClientPhases
<1>2. CASE ~Authorized(sched, lane[r])
  <2>1. Becomes(r, "withdrawing") /\ UNCHANGED vars
    BY <1>2 DEF Submit
  <2>2. /\ client' \in [Runs -> ClientPhases] /\ client'[r] = "withdrawing"
        /\ \A q \in Runs \ {r} : client'[q] = client[q]
    BY <1>1, <2>1, ClientBecomes
  <2>3. ServiceTypeOK'
    BY <1>1, <2>2 DEF ServiceTypeOK
  <2>4. QED
    BY <1>1, <2>1, <2>2, <2>3, EngineAtRest, ServiceKeeps
<1>3. CASE Authorized(sched, lane[r])
  <2>1. PICK n \in 1..MaxBatch : SubmitBatch(n)
    BY <1>3 DEF Submit
  <2>2. Becomes(r, "submitted")
    BY <1>3 DEF Submit
  <2>3. /\ client' \in [Runs -> ClientPhases] /\ client'[r] = "submitted"
        /\ \A q \in Runs \ {r} : client'[q] = client[q]
    BY <1>1, <2>2, ClientBecomes
  <2>4. queueClaim.owner = r /\ actionRun # None /\ actionRun.id = r
    BY <1>1, <1>3, GoodClaim
  <2>5. actionRun \in ActionRuns
    BY <2>4 DEF EngineInv, TypeInv, TypeOK
  <2>6. /\ queueClaim' = queueClaim /\ actionRun'.id = r /\ actionRun'.outcome = actionRun.outcome
    BY <2>1, <2>4, <2>5 DEF SubmitBatch, ActionRuns
  <2>7. actionRun' # None
    <3> DEFINE b == Batch(n, "run", "run")
    <3>1. n \in Nat /\ n >= 1 /\ submitted \in Nat /\ Available(n)
      BY <2>1, EngineAssumption DEF EngineInv, TypeInv, TypeOK, SubmitBatch
    <3>2. b \in Seq(Envelopes)
      BY <3>1, BatchType DEF Policies
    <3>3. actionRun' = [actionRun EXCEPT !.actions = b]
      BY <2>1 DEF SubmitBatch
    <3> HIDE DEF b
    <3>4. QED
      BY <2>5, <3>2, <3>3, RunChangedIsNotNone
  <2>8. ServiceTypeOK'
    BY <1>1, <2>3 DEF ServiceTypeOK
  <2>9. ClaimsHeld' /\ OwnerIsLive'
    BY <1>1, <2>4, <2>6, <2>7 DEF ServiceInv, ClaimsHeld, OwnerIsLive
  <2>10. Covered' /\ EmptyUntilSubmitted'
    BY <2>3, <2>4, <2>6 DEF Covered, EmptyUntilSubmitted
  <2>11. QED
    BY <2>8, <2>9, <2>10 DEF ServiceInv
<1>4. QED
  BY <1>2, <1>3

LEMMA StartKeeps ==
  ASSUME EngineInv, EngineInv', ServiceInv, NEW r \in Runs, StartActions(r) \/ CancelAccepted(r)
  PROVE  ServiceInv'
<1>1. ServiceTypeOK /\ registry \in Registrations \cup {None}
  BY DEF ServiceInv, ServiceTypeOK
<1>2. ASSUME NEW phase \in ClientPhases \ {"new", "acquired"}, Becomes(r, phase), Narrows, RunKept, UNCHANGED lane,
             runner' \in RunnerStates, registry' \in Registrations \cup {None},
             registry' = None <=> runner'.phase = "none",
             phase = "accepted" => Renews(registry'), Renews(registry) => Renews(registry'),
             phase = "archived" => client[r] = "new"
      PROVE  ServiceInv'
  <2>1. /\ client' \in [Runs -> ClientPhases] /\ client'[r] = phase
        /\ \A q \in Runs \ {r} : client'[q] = client[q]
    BY <1>1, <1>2, ClientBecomes
  <2>2. ServiceTypeOK'
    BY <1>1, <1>2, <2>1 DEF ServiceTypeOK
  <2>3. QED
    BY <1>2, <2>1, <2>2, ServiceKeeps
<1> USE DEF ClientPhases
<1>3. CASE ArchiveFirst(r)
  BY <1>1, <1>2, <1>3, EngineAtRest DEF ArchiveFirst, ServiceTypeOK
<1>4. CASE EnsureRunner(r)
  <2>1. CASE registry # None /\ registry.kind = "action"
    BY <1>1, <1>2, <1>4, <2>1, EngineAtRest, RegistrationTypes DEF EnsureRunner, Renews, ServiceTypeOK
  <2>2. CASE ~(registry # None /\ registry.kind = "action")
    BY <1>1, <1>2, <1>4, <2>2, EngineAtRest DEF EnsureRunner, Renews, ServiceTypeOK
  <2>3. QED
    BY <2>1, <2>2
<1>5. CASE RegisterActionRunner(r)
  <2>1. CASE registry = None
    <3>1. registry' = [kind |-> "action", generation |-> 0, halted |-> FALSE] /\ runner' \in RunnerStates /\ runner'.phase # "none"
          /\ Becomes(r, "accepted") /\ UNCHANGED <<vars, lane>>
      BY <1>5, <2>1 DEF RegisterActionRunner, Registered, RunnerStates
    <3>2. registry' \in Registrations /\ Renews(registry') /\ registry' # None
      BY <3>1, RegistrationTypes DEF Renews
    <3>3. QED
      BY <1>2, <3>1, <3>2, EngineAtRest
  <2>2. CASE registry # None
    BY <1>1, <1>2, <1>5, <2>2, EngineAtRest DEF RegisterActionRunner, ServiceTypeOK
  <2>3. QED
    BY <2>1, <2>2
<1>6. CASE Withdraw(r)
  BY <1>1, <1>2, <1>6, EngineAtRest, CancelKeeps DEF Withdraw, ServiceTypeOK
<1>7. CASE CancelAccepted(r)
  BY <1>1, <1>7, CancelKeeps, ServiceKeeps DEF CancelAccepted, ServiceTypeOK
<1>8. QED
  BY <1>3, <1>4, <1>5, <1>6, <1>7, AcquireKeeps, SubmitKeeps DEF StartActions

LEMMA OthersKeep ==
  ASSUME EngineInv, EngineInv', ServiceInv, HaltCall \/ OverrideCall \/ Background
  PROVE  ServiceInv'
<1>1. ServiceTypeOK /\ registry \in Registrations \cup {None}
  BY DEF ServiceInv, ServiceTypeOK
<1>2. ASSUME Narrows, RunKept, UNCHANGED <<client, lane>>, runner' \in RunnerStates,
             registry' \in Registrations \cup {None}, registry' = None <=> runner'.phase = "none",
             Renews(registry) => Renews(registry')
      PROVE  ServiceInv'
  <2>1. ServiceTypeOK'
    BY <1>1, <1>2 DEF ServiceTypeOK
  <2>2. QED
    BY <1>2, <2>1, ServiceKeeps
<1>3. CASE HaltCall
  BY <1>1, <1>2, <1>3, ClientsNarrow DEF HaltCall, ServiceTypeOK
<1>4. CASE OverrideCall
  BY <1>1, <1>2, <1>4, ClientsNarrow DEF OverrideCall, ServiceTypeOK
<1>5. CASE NotifyHalt
  BY <1>1, <1>2, <1>5, EngineAtRest, RegistrationTypes DEF NotifyHalt, Renews, ServiceTypeOK
<1>6. CASE RegisterOverrideRunner
  <2>1. CASE registry = None
    <3>1. registry' = [kind |-> "override", generation |-> 0, halted |-> FALSE] /\ runner' \in RunnerStates /\ runner'.phase # "none"
          /\ UNCHANGED <<vars, client, lane>>
      BY <1>6, <2>1 DEF RegisterOverrideRunner, Registered, RunnerStates
    <3>2. registry' \in Registrations /\ registry' # None /\ ~Renews(registry)
      BY <2>1, <3>1, RegistrationTypes DEF Renews
    <3>3. QED
      BY <1>2, <3>1, <3>2, EngineAtRest
  <2>2. CASE registry # None
    BY <1>1, <1>2, <1>6, <2>2, EngineAtRest DEF RegisterOverrideRunner, ServiceTypeOK
  <2>3. QED
    BY <2>1, <2>2
<1>7. CASE ArchiveLast
  BY <1>1, <1>2, <1>7, EngineAtRest DEF ArchiveLast, ServiceTypeOK
<1>8. QED
  BY <1>3, <1>4, <1>5, <1>6, <1>7 DEF Background

\* The handshake: an action runner leaves only a lane without work, because work in the
\* lane is that of a run that is not over.
LEMMA EndLoopKeeps ==
  ASSUME EngineInv, EngineInv', ServiceInv, EndLoop
  PROVE  ServiceInv'
<1>1. ServiceTypeOK /\ UNCHANGED <<vars, client, lane>> /\ Narrows /\ RunKept
  BY EngineAtRest DEF ServiceInv, EndLoop
<1>2. UNCHANGED <<sched, queueClaim, actionRun>> /\ Work(sched)' = Work(sched)
  BY <1>1 DEF vars, engine, Work, Ids, RunningIds
<1>3. CASE GoesOn
  <2>1. runner' = [phase |-> "registered", generation |-> registry.generation] /\ registry' = registry
    BY <1>3 DEF EndLoop
  <2>2. CASE registry \in Registrations
    <3>1. ServiceTypeOK'
      BY <1>1, <2>1, <2>2, NoRegistrationAssumption DEF ServiceTypeOK, RunnerStates, Registrations
    <3>2. QED
      BY <1>1, <2>1, <3>1, ServiceKeeps
  <2>3. CASE registry = None
    BY <1>1, <2>3 DEF ServiceTypeOK, EndLoop
  <2>4. QED
    BY <1>1, <2>2, <2>3 DEF ServiceTypeOK
<1>4. CASE ~GoesOn
  <2>1. registry' = None /\ runner' = NoRunner
    BY <1>4 DEF EndLoop
  <2>2. ServiceTypeOK'
    BY <1>1, <2>1 DEF ServiceTypeOK, NoRunner, RunnerStates
  <2>3. Work(sched) # {} => client[queueClaim.owner] # "accepted"
    <3> SUFFICES ASSUME Work(sched) # {}, client[queueClaim.owner] = "accepted" PROVE FALSE
      OBVIOUS
    <3>1. registry # None /\ registry.kind = "action"
      BY DEF ServiceInv, Covered
    <3>2. queueClaim # None
      BY OwnershipDef DEF EngineInv, OwnershipInv
    <3>3. actionRun # None /\ actionRun.outcome = None
      BY <3>2 DEF ServiceInv, OwnerIsLive
    <3>4. sched.running # None \/ sched.pending # << >>
      BY NoIds DEF Work
    <3>5. QED
      BY <1>4, <3>1, <3>3, <3>4 DEF GoesOn, HasUnfinishedRun
  <2>4. ServiceInv'
    BY <1>1, <1>2, <2>2, <2>3 DEF ServiceInv, ClaimsHeld, OwnerIsLive, Covered, EmptyUntilSubmitted
  <2>5. QED
    BY <2>4
<1>5. QED
  BY <1>3, <1>4

LEMMA RunnerKeeps ==
  ASSUME EngineInv, EngineInv', ServiceInv, RunnerStep
  PROVE  ServiceInv'
<1>1. ServiceTypeOK /\ OwnerIsLive /\ Runner \in Steppers
  BY RunnerIsStepper DEF ServiceInv
<1>2. ASSUME Narrows, RunKept, UNCHANGED <<registry, client, lane>>, runner' \in RunnerStates,
             runner'.phase = "none" <=> runner.phase = "none"
      PROVE  ServiceInv'
  <2>1. ServiceTypeOK'
    BY <1>1, <1>2 DEF ServiceTypeOK
  <2>2. QED
    BY <1>2, <2>1, ServiceKeeps
<1>3. ASSUME NEW phase \in {"looping", "fetched"} 
      PROVE  [runner EXCEPT !.phase = phase] \in RunnerStates /\ [runner EXCEPT !.phase = phase].phase # "none"
  BY <1>1 DEF ServiceTypeOK, RunnerStates
<1>4. ASSUME UNCHANGED <<sched, queueClaim, actionRun>> PROVE Narrows /\ RunKept
  BY <1>4 DEF Narrows, RunKept, Work, Ids, RunningIds
<1>5. CASE BeginLoop
  BY <1>2, <1>3, <1>4, <1>5 DEF BeginLoop, StartRunner, engine
<1>6. CASE Prefetch
  BY <1>2, <1>3, <1>4, <1>6 DEF Prefetch, vars, engine
<1>7. CASE LoopDecide
  BY <1>1, <1>2, <1>3, <1>7, DecideNarrows DEF LoopDecide
<1>8. CASE LoopEnds
  BY <1>1, <1>2, <1>8, ApplyNarrows DEF LoopEnds, Apply, service, ServiceTypeOK
<1>9. CASE LoopApplies
  BY <1>1, <1>2, <1>9, ApplyNarrows, FailNarrows DEF LoopApplies, Apply, service, ServiceTypeOK
<1>10. CASE LoopHaltAction
  BY <1>1, <1>2, <1>10, ApplyNarrows DEF LoopHaltAction, Apply, ServiceTypeOK
<1>11. CASE LoopDrops
  BY <1>1, <1>2, <1>4, <1>11 DEF LoopDrops, DropStep, engine, service, ServiceTypeOK
<1>12. QED
  BY <1>5, <1>6, <1>7, <1>8, <1>9, <1>10, <1>11, EndLoopKeeps DEF RunnerStep

LEMMA ServiceInvInit == SessionInit => ServiceInv
<1> SUFFICES ASSUME SessionInit PROVE ServiceInv
  OBVIOUS
<1>1. ServiceTypeOK
  BY DEF SessionInit, ServiceTypeOK, NoRunner, RunnerStates, ClientPhases
<1>2. queueClaim = None /\ actionRun = None /\ Work(sched) = {} /\ \A r \in Runs : lane[r] = None
  BY NewWork DEF SessionInit, Init
<1>3. QED
  BY <1>1, <1>2 DEF ServiceInv, ClaimsHeld, OwnerIsLive, Covered, EmptyUntilSubmitted

LEMMA ServiceInvStep == EngineInv /\ EngineInv' /\ ServiceInv /\ [SessionNext]_svars => ServiceInv'
<1> SUFFICES ASSUME EngineInv, EngineInv', ServiceInv, [SessionNext]_svars PROVE ServiceInv'
  OBVIOUS
<1>1. CASE UNCHANGED svars
  <2>1. UNCHANGED <<vars, registry, runner, client, lane>>
    BY <1>1 DEF svars, service
  <2>2. ServiceTypeOK'
    BY <2>1 DEF ServiceInv, ServiceTypeOK
  <2>3. QED
    BY <2>1, <2>2, EngineAtRest, ServiceKeeps
<1>2. QED
  BY <1>1, StartKeeps, OthersKeep, RunnerKeeps DEF SessionNext

LEMMA ServiceInvariant == SafetySpec => []ServiceInv
BY ServiceInvInit, ServiceInvStep, EngineInvariant, PTL DEF SafetySpec

\* Work whose client was told that it runs is never left without a registered runner,
\* however acquisitions, submissions, withdrawals, halts, cancellations, overrides and
\* the runner that looks for a last time before it leaves are interleaved.
THEOREM RunnersStayForWork == SafetySpec => []AcceptedWorkHasRunner
<1>1. EngineInv /\ ServiceInv => AcceptedWorkHasRunner
  <2> SUFFICES ASSUME EngineInv, ServiceInv, sched.running # None \/ sched.pending # << >>
               PROVE  registry # None \/ (queueClaim # None /\ client[queueClaim.owner] # "accepted")
    BY DEF AcceptedWorkHasRunner
  <2>1. Work(sched) # {}
    <3>1. sched \in SchedulerStates
      BY DEF EngineInv, TypeInv, TypeOK
    <3>2. CASE sched.running # None
      BY <3>2 DEF Work, RunningIds
    <3>3. CASE sched.pending # << >>
      <4>1. Head(sched.pending).id \in Ids(sched.pending)
        BY <3>1, <3>3, FieldTypes, HeadTailIds
      <4>2. QED
        BY <4>1 DEF Work
    <3>4. QED
      BY <3>2, <3>3
  <2>2. queueClaim # None
    BY <2>1, OwnershipDef DEF EngineInv, OwnershipInv
  <2>3. QED
    BY <2>1, <2>2 DEF ServiceInv, Covered
<1>2. QED
  BY <1>1, EngineInvariant, ServiceInvariant, PTL

\* A client whose claim the scheduler still honours finds the engine with its own run,
\* in place and without actions: a claim that is not stale is never refused for another
\* reason.
HonouredClaimsFit ==
  \A r \in Runs : client[r] = "acquired" /\ Authorized(sched, lane[r]) =>
    Authorized(sched, queueClaim) /\ actionRun # None /\ actionRun.id = r /\ actionRun.actions = << >>

THEOREM ClaimsFitTheirRuns == SafetySpec => []HonouredClaimsFit
<1>1. EngineInv /\ ServiceInv => HonouredClaimsFit
  BY GoodClaim DEF HonouredClaimsFit
<1>2. QED
  BY <1>1, EngineInvariant, ServiceInvariant, PTL
=============================================================================
