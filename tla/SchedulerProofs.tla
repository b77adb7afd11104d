-------------------------- MODULE SchedulerProofs --------------------------
(***************************************************************************)
(* The scheduler's invariants and action properties, for any sets of       *)
(* owners, envelopes and continuations and any bounds.                     *)
(***************************************************************************)
EXTENDS Scheduler, SchedulerOpsProofs

\* The batches that callers submit are non-empty sequences of envelopes.
LEMMA BatchType ==
  ASSUME submitted \in Nat, NEW n \in 1..MaxBatch, BatchAvailable(n), NEW policy \in Policies
  PROVE  Batch(n, policy) \in Seq(Envelopes) /\ Batch(n, policy) # <<>>
<1>1. n \in Nat /\ n >= 1
  BY SchedulerAssumption
<1>2. Batch(n, policy) \in [1..n -> Envelopes]
  BY DEF Batch, BatchAvailable, Envelopes
<1>3. Batch(n, policy) \in Seq(Envelopes)
  BY <1>1, <1>2, FunctionIsSequence
<1>4. 1 \in DOMAIN Batch(n, policy)
  BY <1>1, <1>2
<1>5. QED
  BY <1>3, <1>4

LEMMA InterruptBatchType ==
  ASSUME submitted \in Nat, NEW n \in 1..MaxBatch, BatchAvailable(n), NEW last \in Policies
  PROVE  InterruptBatch(n, last) \in Seq(Envelopes) /\ InterruptBatch(n, last) # <<>>
<1> DEFINE b == Batch(n, "client")
           q == InterruptBatch(n, last)
<1>1. n \in Nat /\ n >= 1
  BY SchedulerAssumption
<1>2. b \in [1..n -> Envelopes]
  BY DEF Batch, BatchAvailable, Envelopes, Policies
<1>3. [b[n] EXCEPT !.policy = last] \in Envelopes
  BY <1>1, <1>2 DEF Envelopes
<1>4. q = [b EXCEPT ![n] = [b[n] EXCEPT !.policy = last]]
  BY DEF InterruptBatch
<1>5. q \in [1..n -> Envelopes]
  <2> HIDE DEF b, q
  <2> QED BY <1>2, <1>3, <1>4
<1>6. q \in Seq(Envelopes)
  BY <1>1, <1>5, FunctionIsSequence
<1>7. 1 \in DOMAIN q
  BY <1>1, <1>5
<1>8. QED
  BY <1>6, <1>7

-----------------------------------------------------------------------------
(* Type correctness. *)

LEMMA TypeInit == Init => TypeOK
  BY NewSchedulerType DEF Init, TypeOK

LEMMA ClaimLaneType ==
  ASSUME TypeOK, NEW o \in Owners, ClaimLane(o)
  PROVE  TypeOK'
<1>1. sched' \in SchedulerStates
  BY ClaimType DEF TypeOK, ClaimLane
<1>2. sched'.claim \in QueueClaims
  BY FieldTypes DEF TypeOK, ClaimLane, Claim, SchedulerStates, QueueClaims
<1>3. QED
  BY <1>1, <1>2 DEF TypeOK, ClaimLane

LEMMA TypeStep == TypeOK /\ [Next]_vars => TypeOK'
<1> SUFFICES ASSUME TypeOK, [Next]_vars
             PROVE  TypeOK'
  OBVIOUS
<1> USE DEF TypeOK
<1>1. ASSUME NEW o \in Owners, ClaimLane(o)
      PROVE  TypeOK'
  BY <1>1, ClaimLaneType
<1>2. ASSUME NEW g \in 0..MaxGeneration, NEW o \in Owners, ReclaimLane(g, o)
      PROVE  TypeOK'
  BY <1>2, ClaimLaneType DEF ReclaimLane
<1>3. ASSUME NEW c \in issued, ReleaseLane(c)
      PROVE  TypeOK'
  BY <1>3, InvalidateType DEF ReleaseLane, Release
<1>4. ASSUME NEW c \in issued, CancelLane(c)
      PROVE  TypeOK'
  BY <1>4, CancelType DEF CancelLane
<1>5. CASE HaltAll
  BY <1>5, HaltType DEF HaltAll
<1>6. ASSUME NEW c \in issued, NEW n \in 1..MaxBatch, AppendWork(c, n)
      PROVE  TypeOK'
  <2>1. Batch(n, "run") \in Seq(Envelopes)
    BY <1>6, BatchType DEF AppendWork, Policies
  <2>2. submitted + n \in Nat
    BY SchedulerAssumption
  <2>3. QED
    BY <1>6, <2>1, <2>2, AppendBatchType DEF AppendWork
<1>7. ASSUME NEW n \in 1..MaxBatch, NEW last \in {"client", "client_return_to_origin"},
             AppendOverride(n, last)
      PROVE  TypeOK'
  <2>1. InterruptBatch(n, last) \in Seq(Envelopes)
    BY <1>7, InterruptBatchType DEF AppendOverride, Policies
  <2>2. submitted + n \in Nat
    BY SchedulerAssumption
  <2>3. QED
    BY <1>7, <2>1, <2>2, AppendInterruptsType DEF AppendOverride
<1>8. CASE MaterializeReturn
  <2>1. "client_return_to_origin_ready" \in Policies
    BY DEF Policies
  <2>2. QED
    BY <1>8, <2>1, ReplaceInterruptPolicyType DEF MaterializeReturn
<1>9. CASE StartNextAction
  BY <1>9, StartNextType DEF StartNextAction
<1>10. ASSUME NEW lane \in Lanes, NEW k \in Continuations \cup {None}, StoreContinuation(lane, k)
       PROVE  TypeOK'
  BY <1>10, SetContinuationType DEF StoreContinuation
<1>11. ASSUME NEW lane \in Lanes, CompleteAction(lane, "succeeded")
       PROVE  TypeOK'
  <2>1. "succeeded" \in Outcomes
    BY DEF Outcomes
  <2>2. QED
    BY <1>11, <2>1, CompleteType DEF CompleteAction
<1>12. CASE UNCHANGED vars
  BY <1>12 DEF vars
<1>13. QED
  BY <1>1, <1>2, <1>3, <1>4, <1>5, <1>6, <1>7, <1>8, <1>9, <1>10, <1>11, <1>12 DEF Next

\* The scheduler's state always has the shape of its Rust types.
THEOREM TypeCorrect == Spec => []TypeOK
  BY TypeInit, TypeStep, PTL DEF Spec

-----------------------------------------------------------------------------
(* Preemption. *)

LEMMA PauseInit == Init => PausedIffPreempted
  BY DEF Init, NewScheduler, PausedIffPreempted, PauseFlagCorrect

LEMMA PauseStep == TypeOK /\ PausedIffPreempted /\ [Next]_vars => PausedIffPreempted'
<1> SUFFICES ASSUME TypeOK, PausedIffPreempted, [Next]_vars
             PROVE  PausedIffPreempted'
  OBVIOUS
<1> USE DEF PausedIffPreempted
<1>s. sched \in SchedulerStates /\ submitted \in Nat
  BY DEF TypeOK
<1>1. ASSUME NEW o \in Owners, ClaimLane(o)
      PROVE  PausedIffPreempted'
  BY <1>1, <1>s, LanesUntouched DEF ClaimLane, Claim, SchedulerStates
<1>2. ASSUME NEW g \in 0..MaxGeneration, NEW o \in Owners, ReclaimLane(g, o)
      PROVE  PausedIffPreempted'
  BY <1>2, <1>1 DEF ReclaimLane
<1>3. ASSUME NEW c \in issued, ReleaseLane(c)
      PROVE  PausedIffPreempted'
  BY <1>3, <1>s, LanesUntouched DEF ReleaseLane, Release, Invalidate, SchedulerStates
<1>4. ASSUME NEW c \in issued, CancelLane(c)
      PROVE  PausedIffPreempted'
  BY <1>4, <1>s DEF CancelLane, Cancel, Invalidate, PauseFlagCorrect, SchedulerStates
<1>5. CASE HaltAll
  BY <1>5, <1>s DEF HaltAll, Halt, Invalidate, PauseFlagCorrect, SchedulerStates
<1>6. ASSUME NEW c \in issued, NEW n \in 1..MaxBatch, AppendWork(c, n)
      PROVE  PausedIffPreempted'
  BY <1>6, <1>s, LanesUntouched DEF AppendWork, AppendBatch, SchedulerStates
<1>7. ASSUME NEW n \in 1..MaxBatch, NEW last \in {"client", "client_return_to_origin"},
             AppendOverride(n, last)
      PROVE  PausedIffPreempted'
  <2>1. InterruptBatch(n, last) \in Seq(Envelopes) /\ InterruptBatch(n, last) # <<>>
    BY <1>7, <1>s, InterruptBatchType DEF AppendOverride, Policies
  <2>2. QED
    BY <1>7, <1>s, <2>1, AppendInterruptsFlag DEF AppendOverride
<1>8. CASE MaterializeReturn
  BY <1>8, <1>s, ReplaceInterruptPolicyFlag DEF MaterializeReturn
<1>9. CASE StartNextAction
  BY <1>9, <1>s, StartNextFlag DEF StartNextAction
<1>10. ASSUME NEW lane \in Lanes, NEW k \in Continuations \cup {None}, StoreContinuation(lane, k)
       PROVE  PausedIffPreempted'
  BY <1>10, <1>s, SetContinuationFlag DEF StoreContinuation
<1>11. ASSUME NEW lane \in Lanes, CompleteAction(lane, "succeeded")
       PROVE  PausedIffPreempted'
  BY <1>11, <1>s, CompleteFlag DEF CompleteAction
<1>12. CASE UNCHANGED vars
  BY <1>12 DEF vars
<1>13. QED
  BY <1>1, <1>2, <1>3, <1>4, <1>5, <1>6, <1>7, <1>8, <1>9, <1>10, <1>11, <1>12 DEF Next

\* A running normal action is paused exactly while there is interrupt work.
THEOREM PauseFlagInvariant == Spec => []PausedIffPreempted
<1>1. Spec => []TypeOK
  BY TypeCorrect
<1>2. QED
  BY <1>1, PauseInit, PauseStep, PTL DEF Spec

-----------------------------------------------------------------------------
(* Claims. *)

\* Every claim ever issued is of a generation the scheduler has reached; so a
\* new claim, of the next generation, differs from all of them.
ClaimsReached == \A c \in issued : c.generation <= sched.generation

\* What a step does to the lease: nothing, a claim of the next generation
\* (which is issued), or an invalidation.
LeaseStep ==
  \/ /\ sched'.generation = sched.generation /\ sched'.claim = sched.claim
     /\ issued' = issued
  \/ /\ sched'.generation = sched.generation + 1
     /\ sched'.claim \in QueueClaims /\ sched'.claim.generation = sched.generation + 1
     /\ issued' = issued \cup {sched'.claim}
  \/ /\ sched'.generation = sched.generation + 1 /\ sched'.claim = None
     /\ issued' = issued

LEMMA LeaseSteps == TypeOK /\ [Next]_vars => LeaseStep
<1> SUFFICES ASSUME TypeOK, [Next]_vars
             PROVE  LeaseStep
  OBVIOUS
<1>s. sched \in SchedulerStates
  BY DEF TypeOK
<1> USE DEF LeaseStep
<1>1. ASSUME NEW o \in Owners, ClaimLane(o)
      PROVE  LeaseStep
  <2>1. /\ sched'.generation = sched.generation + 1
        /\ sched'.claim = [owner |-> o, generation |-> sched.generation + 1]
    BY <1>1, <1>s DEF ClaimLane, Claim, SchedulerStates
  <2>2. sched'.claim \in QueueClaims
    BY <2>1, <1>s, FieldTypes DEF QueueClaims
  <2>3. QED
    BY <1>1, <2>1, <2>2 DEF ClaimLane
<1>2. ASSUME NEW g \in 0..MaxGeneration, NEW o \in Owners, ReclaimLane(g, o)
      PROVE  LeaseStep
  BY <1>2, <1>1 DEF ReclaimLane
<1>3. ASSUME NEW c \in issued, ReleaseLane(c)
      PROVE  LeaseStep
  BY <1>3, <1>s DEF ReleaseLane, Release, Invalidate, SchedulerStates
<1>4. ASSUME NEW c \in issued, CancelLane(c)
      PROVE  LeaseStep
  BY <1>4, <1>s DEF CancelLane, Cancel, Invalidate, SchedulerStates
<1>5. CASE HaltAll
  BY <1>5, <1>s DEF HaltAll, Halt, Invalidate, SchedulerStates
<1>6. ASSUME NEW c \in issued, NEW n \in 1..MaxBatch, AppendWork(c, n)
      PROVE  LeaseStep
  BY <1>6, <1>s DEF AppendWork, AppendBatch, SchedulerStates
<1>7. ASSUME NEW n \in 1..MaxBatch, NEW last \in {"client", "client_return_to_origin"},
             AppendOverride(n, last)
      PROVE  LeaseStep
  BY <1>7, <1>s DEF AppendOverride, AppendInterrupts, SchedulerStates
<1>8. CASE MaterializeReturn
  BY <1>8, <1>s DEF MaterializeReturn, ReplaceInterruptPolicy, SchedulerStates
<1>9. CASE StartNextAction
  BY <1>9, <1>s DEF StartNextAction, StartNext, StartInterrupt, StartNormal, SchedulerStates
<1>10. ASSUME NEW lane \in Lanes, NEW k \in Continuations \cup {None}, StoreContinuation(lane, k)
       PROVE  LeaseStep
  BY <1>10, <1>s DEF StoreContinuation, SetContinuation, SchedulerStates
<1>11. ASSUME NEW lane \in Lanes, CompleteAction(lane, "succeeded")
       PROVE  LeaseStep
  BY <1>11, <1>s DEF CompleteAction, Complete, CompleteNormal, CompleteInterrupt, SchedulerStates
<1>12. CASE UNCHANGED vars
  BY <1>12 DEF vars
<1>13. QED
  BY <1>1, <1>2, <1>3, <1>4, <1>5, <1>6, <1>7, <1>8, <1>9, <1>10, <1>11, <1>12 DEF Next

LEMMA ClaimsReachedStep == TypeOK /\ ClaimsReached /\ LeaseStep => ClaimsReached'
<1> SUFFICES ASSUME TypeOK, ClaimsReached, LeaseStep, NEW c \in issued'
             PROVE  c.generation <= sched'.generation
  BY DEF ClaimsReached
<1>1. sched.generation \in Nat
  BY FieldTypes DEF TypeOK
<1>2. CASE c \in issued
  <2>1. c.generation \in Nat /\ c.generation <= sched.generation
    BY <1>2 DEF TypeOK, ClaimsReached, QueueClaims
  <2>2. QED
    BY <1>1, <2>1 DEF LeaseStep
<1>3. CASE c \notin issued
  BY <1>1, <1>3 DEF LeaseStep
<1>4. QED
  BY <1>2, <1>3

\* A claim that has been superseded, released, cancelled or halted away never
\* authorizes anything again.
THEOREM StaleClaimsRejected == Spec => StaleClaimsStayStale
<1>1. Init => ClaimsReached
  BY DEF Init, ClaimsReached
<1>2. TypeOK /\ ClaimsReached /\ [Next]_vars => ClaimsReached'
  BY LeaseSteps, ClaimsReachedStep
<1>3. TypeOK /\ ClaimsReached /\ [Next]_vars
        => [\A c \in issued : c # sched.claim => c # sched'.claim]_vars
  <2> SUFFICES ASSUME TypeOK, ClaimsReached, LeaseStep,
                      NEW c \in issued, c # sched.claim, c = sched'.claim
               PROVE  FALSE
    BY LeaseSteps
  <2>1. c \in QueueClaims /\ c # None
    BY NoneAssumption DEF TypeOK
  <2>2. sched.generation \in Nat
    BY FieldTypes DEF TypeOK
  <2>3. c.generation = sched.generation + 1
    BY <2>1 DEF LeaseStep
  <2>4. c.generation <= sched.generation
    BY DEF ClaimsReached
  <2>5. QED
    BY <2>2, <2>3, <2>4
<1>4. QED
  BY <1>1, <1>2, <1>3, TypeCorrect, PTL DEF Spec, StaleClaimsStayStale

-----------------------------------------------------------------------------
(* Precedence. *)

\* No normal action starts while the interrupt lane has work.
THEOREM InterruptsComeFirst == Spec => InterruptPrecedence
<1>1. TypeOK /\ [Next]_vars
        => [sched.running = None /\ sched'.running # None => ~InterruptBusy(sched)]_vars
  <2> SUFFICES ASSUME TypeOK, Next, sched.running = None, sched'.running # None
               PROVE  ~InterruptBusy(sched)
    OBVIOUS
  <2>s. sched \in SchedulerStates
    BY DEF TypeOK
  <2> USE <2>s DEF SchedulerStates
  <2>1. ASSUME NEW o \in Owners, ClaimLane(o)
        PROVE  FALSE
    BY <2>1 DEF ClaimLane, Claim
  <2>2. ASSUME NEW c \in issued, ReleaseLane(c) \/ CancelLane(c)
        PROVE  FALSE
    BY <2>2 DEF ReleaseLane, Release, CancelLane, Cancel, Invalidate
  <2>3. CASE HaltAll
    BY <2>3 DEF HaltAll, Halt, Invalidate
  <2>4. ASSUME NEW c \in issued, NEW n \in 1..MaxBatch, AppendWork(c, n)
        PROVE  FALSE
    BY <2>4 DEF AppendWork, AppendBatch
  <2>5. ASSUME NEW n \in 1..MaxBatch, NEW last \in {"client", "client_return_to_origin"},
               AppendOverride(n, last)
        PROVE  FALSE
    BY <2>5 DEF AppendOverride, AppendInterrupts, SetPaused
  <2>6. CASE MaterializeReturn
    BY <2>6 DEF MaterializeReturn, ReplaceInterruptPolicy
  <2>7. CASE StartNextAction
    <3>1. CASE CanStartInterrupt(sched)
      BY <2>7, <3>1 DEF StartNextAction, StartNext, StartInterrupt, SetPaused
    <3>2. CASE ~CanStartInterrupt(sched)
      BY <2>7, <3>2 DEF StartNextAction, StartNext, CanStartNormal
    <3>3. QED
      BY <3>1, <3>2
  <2>8. ASSUME NEW lane \in Lanes, NEW k \in Continuations \cup {None},
               StoreContinuation(lane, k)
        PROVE  FALSE
    BY <2>8 DEF StoreContinuation, SetContinuation
  <2>9. ASSUME NEW lane \in Lanes, CompleteAction(lane, "succeeded")
        PROVE  FALSE
    BY <2>9 DEF CompleteAction, Complete, CompleteNormal, CompleteInterrupt, SetPaused
  <2>10. QED
    BY <2>1, <2>2, <2>3, <2>4, <2>5, <2>6, <2>7, <2>8, <2>9 DEF Next, ReclaimLane
<1>2. QED
  BY <1>1, TypeCorrect, PTL DEF Spec, InterruptPrecedence

-----------------------------------------------------------------------------
(* Refinement.  Every id is submitted once: what waits, runs and waits as an        *)
(* interrupt are different envelopes, and a new batch is none of them.             *)

Unique(q) == \A i, j \in DOMAIN q : q[i].id = q[j].id => i = j

LogIds(log) == {log[i].env.id : i \in DOMAIN log}

Waiting(s) == QueueIds(s.pending) \cup QueueIds(s.interruptPending)

\* An envelope is in one place.
Distinct(s) ==
  /\ Unique(s.pending) /\ Unique(s.interruptPending)
  /\ QueueIds(s.pending) \cap QueueIds(s.interruptPending) = {}
  /\ RunningIds(s.running) \cap Waiting(s) = {}
  /\ RunningIds(s.interrupt) \cap Waiting(s) = {}
  /\ RunningIds(s.running) \cap RunningIds(s.interrupt) = {}

KnownIds(s) == Waiting(s) \cup RunningIds(s.running) \cup RunningIds(s.interrupt) \cup CompletedIds(s)

\* What was submitted is numbered up to here.
SubmittedOnce ==
  Distinct(sched) /\ \A id \in KnownIds(sched) : id <= submitted

RefinementInv == TypeOK /\ PausedIffPreempted /\ SubmittedOnce

LEMMA QueueIdsType ==
  ASSUME NEW q \in Seq(Envelopes)
  PROVE  QueueIds(q) \subseteq EnvelopeIds
<1>1. \A i \in DOMAIN q : q[i] \in Envelopes
  BY ElementOfSeq, LenProperties
<1>2. QED
  BY <1>1 DEF QueueIds, Envelopes

\* Queues that are joined, and one that loses its head.
LEMMA ConcatIds ==
  ASSUME NEW p \in Seq(Envelopes), NEW q \in Seq(Envelopes)
  PROVE  /\ QueueIds(p \o q) = QueueIds(p) \cup QueueIds(q)
         /\ Unique(p) /\ Unique(q) /\ QueueIds(p) \cap QueueIds(q) = {} => Unique(p \o q)
<1> DEFINE r == p \o q
<1>1. /\ DOMAIN p = 1..Len(p) /\ DOMAIN q = 1..Len(q) /\ DOMAIN r = 1..(Len(p) + Len(q))
      /\ Len(p) \in Nat /\ Len(q) \in Nat
      /\ \A i \in 1..Len(p) : r[i] = p[i]
      /\ \A i \in 1..Len(q) : r[Len(p) + i] = q[i]
  BY ConcatProperties, LenProperties
<1>2. \A i \in DOMAIN r : i \in DOMAIN p \/ (i - Len(p) \in DOMAIN q /\ i = Len(p) + (i - Len(p)))
  BY <1>1
<1>2a. \A i \in DOMAIN r : \/ i \in DOMAIN p /\ r[i] = p[i]
                           \/ i \notin DOMAIN p /\ i - Len(p) \in DOMAIN q /\ r[i] = q[i - Len(p)]
  BY <1>1, <1>2
<1> HIDE DEF r
<1>3. QueueIds(r) \subseteq QueueIds(p) \cup QueueIds(q)
  BY <1>2a DEF QueueIds
<1>4. QueueIds(p) \subseteq QueueIds(r)
  BY <1>1 DEF QueueIds
<1>5. QueueIds(q) \subseteq QueueIds(r)
  <2>1. \A i \in DOMAIN q : Len(p) + i \in DOMAIN r
    BY <1>1
  <2>2. QED
    BY <1>1, <2>1 DEF QueueIds
<1>6. ASSUME Unique(p), Unique(q), QueueIds(p) \cap QueueIds(q) = {} PROVE Unique(r)
  <2> SUFFICES ASSUME NEW i \in DOMAIN r, NEW j \in DOMAIN r, r[i].id = r[j].id PROVE i = j
    BY DEF Unique
  <2>1. CASE i \in DOMAIN p /\ j \in DOMAIN p
    BY <1>1, <1>6, <2>1 DEF Unique
  <2>2. CASE i \notin DOMAIN p /\ j \notin DOMAIN p
    <3>1. i - Len(p) = j - Len(p)
      BY <1>2a, <1>6, <2>2 DEF Unique
    <3>2. QED
      BY <1>1, <3>1
  <2>3. ASSUME NEW a \in DOMAIN p, NEW b \in DOMAIN q, p[a].id = q[b].id PROVE FALSE
    BY <1>6, <2>3 DEF QueueIds
  <2>4. QED
    BY <1>2a, <2>1, <2>2, <2>3
<1>7. QED
  BY <1>3, <1>4, <1>5, <1>6 DEF r

LEMMA TailIds ==
  ASSUME NEW q \in Seq(Envelopes), q # <<>>, Unique(q)
  PROVE  /\ Head(q).id \in QueueIds(q)
         /\ QueueIds(Tail(q)) = QueueIds(q) \ {Head(q).id}
         /\ Unique(Tail(q))
<1> DEFINE r == Tail(q)
<1>1. /\ Head(q) = q[1] /\ DOMAIN q = 1..Len(q) /\ DOMAIN r = 1..(Len(q) - 1) /\ Len(q) \in Nat /\ Len(q) >= 1
      /\ \A i \in 1..(Len(q) - 1) : r[i] = q[i + 1]
  BY HeadTailProperties, EmptySeq, LenProperties
<1> HIDE DEF r
<1>2. \A i \in DOMAIN r : i + 1 \in DOMAIN q /\ i + 1 # 1 /\ r[i] = q[i + 1]
  BY <1>1
<1>3. \A i \in DOMAIN q : i # 1 => i - 1 \in DOMAIN r /\ r[i - 1] = q[i]
  <2> SUFFICES ASSUME NEW i \in DOMAIN q, i # 1 PROVE i - 1 \in DOMAIN r /\ r[i - 1] = q[i]
    OBVIOUS
  <2>1. i - 1 \in 1..(Len(q) - 1) /\ (i - 1) + 1 = i
    BY <1>1
  <2>2. QED
    BY <1>1, <2>1
<1>4. 1 \in DOMAIN q
  BY <1>1
<1>5. QueueIds(r) \subseteq QueueIds(q) \ {q[1].id}
  BY <1>2, <1>4 DEF QueueIds, Unique
<1>6. QueueIds(q) \ {q[1].id} \subseteq QueueIds(r)
  BY <1>3 DEF QueueIds
<1>7. Unique(r)
  <2> SUFFICES ASSUME NEW i \in DOMAIN r, NEW j \in DOMAIN r, r[i].id = r[j].id PROVE i = j
    BY DEF Unique
  <2>1. i + 1 = j + 1
    BY <1>2 DEF Unique
  <2>2. QED
    BY <1>1, <2>1
<1>8. QED
  BY <1>1, <1>4, <1>5, <1>6, <1>7 DEF r, QueueIds

LEMMA EmptyIds == QueueIds(<<>>) = {} /\ Unique(<<>>) /\ LogIds(<<>>) = {}
BY DEF QueueIds, Unique, LogIds

\* The log of completions, as far as it goes.
LEMMA LogConcat ==
  ASSUME NEW p \in Seq(Completed), NEW q \in Seq(Completed)
  PROVE  LogIds(p \o q) = LogIds(p) \cup LogIds(q)
<1> DEFINE r == p \o q
<1>1. /\ DOMAIN p = 1..Len(p) /\ DOMAIN q = 1..Len(q) /\ DOMAIN r = 1..(Len(p) + Len(q))
      /\ Len(p) \in Nat /\ Len(q) \in Nat
      /\ \A i \in 1..Len(p) : r[i] = p[i]
      /\ \A i \in 1..Len(q) : r[Len(p) + i] = q[i]
  BY ConcatProperties, LenProperties
<1>2. \A i \in DOMAIN r : i \in DOMAIN p \/ (i - Len(p) \in DOMAIN q /\ i = Len(p) + (i - Len(p)))
  BY <1>1
<1>2a. \A i \in DOMAIN r : \/ i \in DOMAIN p /\ r[i] = p[i]
                           \/ i - Len(p) \in DOMAIN q /\ r[i] = q[i - Len(p)]
  BY <1>1, <1>2
<1> HIDE DEF r
<1>3. LogIds(r) \subseteq LogIds(p) \cup LogIds(q)
  BY <1>2a DEF LogIds
<1>4. LogIds(p) \subseteq LogIds(r)
  BY <1>1 DEF LogIds
<1>5. LogIds(q) \subseteq LogIds(r)
  <2>1. \A i \in DOMAIN q : Len(p) + i \in DOMAIN r
    BY <1>1
  <2>2. QED
    BY <1>1, <2>1 DEF LogIds
<1>6. QED
  BY <1>3, <1>4, <1>5 DEF r

LEMMA CancelRecordIds ==
  ASSUME NEW r \in Running \cup {None}
  PROVE  LogIds(CancelRecord(r)) = RunningIds(r)
<1>1. CASE r = None
  BY <1>1, EmptyIds DEF CancelRecord, RunningIds
<1>2. CASE r # None
  <2> DEFINE log == <<[env |-> r.env, outcome |-> "cancelled"]>>
  <2>1. DOMAIN log = {1} /\ log[1].env = r.env
    OBVIOUS
  <2> HIDE DEF log
  <2>2. LogIds(log) = {r.env.id}
    BY <2>1 DEF LogIds
  <2>3. QED
    BY <1>2, <2>2 DEF CancelRecord, RunningIds, log
<1>3. QED
  BY <1>1, <1>2

LEMMA AppendedIds ==
  ASSUME NEW log \in Seq(Completed), NEW x \in Completed
  PROVE  LogIds(Append(log, x)) = LogIds(log) \cup {x.env.id}
<1> DEFINE r == Append(log, x)
<1>1. /\ DOMAIN log = 1..Len(log) /\ Len(log) \in Nat /\ DOMAIN r = 1..(Len(log) + 1)
      /\ \A i \in 1..Len(log) : r[i] = log[i]
      /\ r[Len(log) + 1] = x
  BY AppendProperties, LenProperties
<1> HIDE DEF r
<1>2. \A i \in DOMAIN r : i \in DOMAIN log \/ i = Len(log) + 1
  BY <1>1
<1>3. Len(log) + 1 \in DOMAIN r /\ \A i \in DOMAIN log : i \in DOMAIN r
  BY <1>1
<1>4. QED
  BY <1>1, <1>2, <1>3 DEF LogIds, r

\* A batch has new ids.
LEMMA BatchIds ==
  ASSUME submitted \in Nat, NEW n \in 1..MaxBatch, NEW q \in Seq(Envelopes), DOMAIN q = 1..n,
         \A i \in 1..n : q[i].id = submitted + i
  PROVE  Unique(q) /\ \A id \in QueueIds(q) : id > submitted /\ id <= submitted + n /\ id \in Nat
<1>1. n \in Nat /\ \A i \in 1..n : i \in Nat /\ i >= 1 /\ i <= n
  BY SchedulerAssumption
<1>2. Unique(q)
  BY <1>1 DEF Unique
<1>3. QED
  BY <1>1, <1>2 DEF QueueIds

LEMMA AppendWorkIds ==
  ASSUME submitted \in Nat, NEW n \in 1..MaxBatch, BatchAvailable(n), NEW policy \in Policies
  PROVE  /\ Unique(Batch(n, policy))
         /\ \A id \in QueueIds(Batch(n, policy)) : id > submitted /\ id <= submitted + n /\ id \in Nat
<1>1. DOMAIN Batch(n, policy) = 1..n /\ \A i \in 1..n : Batch(n, policy)[i].id = submitted + i
  BY DEF Batch
<1>2. QED
  BY <1>1, BatchType, BatchIds

LEMMA AppendOverrideIds ==
  ASSUME submitted \in Nat, NEW n \in 1..MaxBatch, BatchAvailable(n), NEW last \in Policies
  PROVE  /\ Unique(InterruptBatch(n, last))
         /\ \A id \in QueueIds(InterruptBatch(n, last)) : id > submitted /\ id <= submitted + n /\ id \in Nat
<1> DEFINE b == Batch(n, "client")
           q == InterruptBatch(n, last)
<1>1. DOMAIN b = 1..n /\ \A i \in 1..n : b[i] = [id |-> submitted + i, policy |-> "client"]
  BY DEF Batch
<1>2. q = [b EXCEPT ![n] = [b[n] EXCEPT !.policy = last]] /\ n \in 1..n
  BY SchedulerAssumption DEF InterruptBatch
<1>3. DOMAIN q = 1..n /\ \A i \in 1..n : q[i].id = submitted + i
  <2> HIDE DEF b, q
  <2> QED BY <1>1, <1>2
<1>4. q \in Seq(Envelopes)
  BY InterruptBatchType
<1> HIDE DEF q
<1>5. Unique(q) /\ \A id \in QueueIds(q) : id > submitted /\ id <= submitted + n /\ id \in Nat
  BY <1>3, <1>4, BatchIds
<1>6. QED
  BY <1>5 DEF q

\* Replacing policies leaves the ids.
LEMMA ReplaceIds ==
  ASSUME NEW s \in SchedulerStates, NEW old, NEW new
  PROVE  LET q == ReplaceInterruptPolicy(s, old, new).interruptPending
         IN QueueIds(q) = QueueIds(s.interruptPending) /\ (Unique(s.interruptPending) => Unique(q))
<1> DEFINE q == ReplaceInterruptPolicy(s, old, new).interruptPending
           p == s.interruptPending
<1>1. q = [i \in DOMAIN p |-> IF p[i].policy = old THEN [p[i] EXCEPT !.policy = new] ELSE p[i]]
  BY DEF ReplaceInterruptPolicy, SchedulerStates
<1>2. \A i \in DOMAIN p : p[i] \in Envelopes
  BY FieldTypes, ElementOfSeq, LenProperties
<1>3. DOMAIN q = DOMAIN p /\ \A i \in DOMAIN p : q[i].id = p[i].id
  <2> HIDE DEF p, q
  <2> QED BY <1>1, <1>2 DEF Envelopes
<1> HIDE DEF p, q
<1>4. QueueIds(q) = QueueIds(p) /\ (Unique(p) => Unique(q))
  BY <1>3 DEF QueueIds, Unique
<1>5. QED
  BY <1>4 DEF p, q

\* What is known of a state's slots.
LEMMA SlotIds ==
  ASSUME NEW r \in Running \cup {None}
  PROVE  /\ r # None => r.env \in Envelopes /\ r.env.id \in EnvelopeIds /\ r.env.id # None /\ r.paused \in BOOLEAN
         /\ \A b \in BOOLEAN : RunningIds(SetPaused(r, b)) = RunningIds(r)
<1>1. r # None => r \in Running
  OBVIOUS
<1>2. r # None => r.env \in Envelopes /\ r.env.id \in EnvelopeIds /\ r.env.id # None /\ r.paused \in BOOLEAN
  BY <1>1, SchedulerAssumption DEF Running, Envelopes
<1>3. ASSUME NEW b \in BOOLEAN PROVE RunningIds(SetPaused(r, b)) = RunningIds(r)
  <2>1. CASE r = None
    BY <2>1 DEF SetPaused
  <2>2. CASE r # None
    <3>1. [r EXCEPT !.paused = b] \in Running /\ [r EXCEPT !.paused = b].env = r.env
      BY <1>1, <2>2 DEF Running
    <3>2. [r EXCEPT !.paused = b] # None
      BY <3>1, NoneAssumption
    <3>3. QED
      BY <2>2, <3>1, <3>2 DEF SetPaused, RunningIds
  <2>3. QED
    BY <2>1, <2>2
<1>4. QED
  BY <1>2, <1>3

-----------------------------------------------------------------------------
(* The view of ExclusiveExecution: what is shown of a state, and the steps between. *)

ActiveOf(s) ==
  IF s.interrupt # None THEN s.interrupt.env.id
  ELSE Ongoing(s.running, s.running # None /\ ~s.running.paused)

SuspendedOf(s) == Ongoing(s.running, s.running # None /\ s.running.paused)

LEMMA ViewOf ==
  /\ ActiveId = ActiveOf(sched) /\ SuspendedId = SuspendedOf(sched)
  /\ (ActiveId)' = ActiveOf(sched') /\ (SuspendedId)' = SuspendedOf(sched')
BY DEF ActiveId, SuspendedId, ActiveOf, SuspendedOf, Ongoing

\* How the view reads, by what is running.
LEMMA ViewCases ==
  ASSUME NEW s \in SchedulerStates, PauseFlagCorrect(s)
  PROVE  /\ s.interrupt # None => RunningIds(s.interrupt) = {ActiveOf(s)} /\ ActiveOf(s) \in EnvelopeIds
         /\ s.interrupt = None => RunningIds(s.interrupt) = {}
         /\ s.running # None /\ InterruptBusy(s) =>
              RunningIds(s.running) = {SuspendedOf(s)} /\ SuspendedOf(s) \in EnvelopeIds
         /\ s.running # None /\ ~InterruptBusy(s) =>
              /\ RunningIds(s.running) = {ActiveOf(s)} /\ ActiveOf(s) \in EnvelopeIds
              /\ SuspendedOf(s) = None
         /\ s.running = None => SuspendedOf(s) = None /\ RunningIds(s.running) = {}
         /\ s.interrupt = None /\ (s.running = None \/ InterruptBusy(s)) => ActiveOf(s) = None
BY FieldTypes, SlotIds DEF ActiveOf, SuspendedOf, Ongoing, RunningIds, PauseFlagCorrect, InterruptBusy

LEMMA ViewKept ==
  ASSUME Waiting(sched)' = Waiting(sched), ActiveOf(sched') = ActiveOf(sched), SuspendedOf(sched') = SuspendedOf(sched),
         CompletedIds(sched)' = CompletedIds(sched)
  PROVE  UNCHANGED Abstract!vars
BY ViewOf DEF Abstract!vars, Waiting

LEMMA ViewAccepts ==
  ASSUME NEW S \in SUBSET EnvelopeIds,
         S \cap (Waiting(sched) \cup {ActiveOf(sched), SuspendedOf(sched)} \cup CompletedIds(sched)) = {},
         Waiting(sched)' = Waiting(sched) \cup S, CompletedIds(sched)' = CompletedIds(sched),
         \/ ActiveOf(sched') = ActiveOf(sched) /\ SuspendedOf(sched') = SuspendedOf(sched)
         \/ SuspendedOf(sched) = None /\ ActiveOf(sched') = None /\ SuspendedOf(sched') = ActiveOf(sched)
  PROVE  Abstract!Next
<1>1. Abstract!Accept(S)
  BY ViewOf DEF Abstract!Accept, Abstract!Known, Waiting
<1>2. QED
  BY <1>1 DEF Abstract!Next

LEMMA ViewStarts ==
  ASSUME NEW w \in Waiting(sched), Waiting(sched) \subseteq EnvelopeIds, ActiveOf(sched) = None, ActiveOf(sched') = w,
         Waiting(sched)' = Waiting(sched) \ {w}, SuspendedOf(sched') = SuspendedOf(sched),
         CompletedIds(sched)' = CompletedIds(sched)
  PROVE  Abstract!Next
<1>1. Abstract!Start(w) /\ w \in EnvelopeIds
  BY ViewOf DEF Abstract!Start, Waiting
<1>2. QED
  BY <1>1 DEF Abstract!Next

LEMMA ViewFinishes ==
  ASSUME Waiting(sched)' = Waiting(sched),
         \/ /\ ActiveOf(sched) # None /\ CompletedIds(sched)' = CompletedIds(sched) \cup {ActiveOf(sched)}
            /\ \/ ActiveOf(sched') = None /\ SuspendedOf(sched') = SuspendedOf(sched)
               \/ ActiveOf(sched') = SuspendedOf(sched) /\ SuspendedOf(sched') = None
         \/ /\ SuspendedOf(sched) # None /\ CompletedIds(sched)' = CompletedIds(sched) \cup {SuspendedOf(sched)}
            /\ ActiveOf(sched') = ActiveOf(sched) /\ SuspendedOf(sched') = None
  PROVE  Abstract!Next
<1>1. Abstract!FinishActive \/ Abstract!FinishSuspended
  BY ViewOf DEF Abstract!FinishActive, Abstract!FinishSuspended, Waiting
<1>2. QED
  BY <1>1 DEF Abstract!Next

LEMMA ViewStops ==
  ASSUME NEW F \in SUBSET {ActiveOf(sched), SuspendedOf(sched)}, None \notin F,
         Waiting(sched)' \subseteq Waiting(sched), CompletedIds(sched)' = CompletedIds(sched) \cup F,
         ActiveOf(sched') = (IF ActiveOf(sched) \in F THEN None ELSE ActiveOf(sched)),
         SuspendedOf(sched') = (IF SuspendedOf(sched) \in F THEN None ELSE SuspendedOf(sched))
  PROVE  Abstract!Next
<1> DEFINE D == Waiting(sched) \ Waiting(sched)'
<1>1. D \subseteq Waiting(sched) /\ Waiting(sched)' = Waiting(sched) \ D
  OBVIOUS
<1> HIDE DEF D
<1>2. Abstract!Stop(D, F)
  BY <1>1, ViewOf DEF Abstract!Stop, Waiting
<1>3. QED
  BY <1>1, <1>2, ViewOf DEF Abstract!Next, Waiting

-----------------------------------------------------------------------------
(* The steps. *)

LEMMA StateIds ==
  ASSUME TypeOK
  PROVE  /\ sched \in SchedulerStates /\ submitted \in Nat
         /\ CompletedIds(sched) = LogIds(sched.completed)
         /\ QueueIds(sched.pending) \subseteq EnvelopeIds /\ QueueIds(sched.interruptPending) \subseteq EnvelopeIds
         /\ Waiting(sched) \subseteq EnvelopeIds /\ None \notin EnvelopeIds
         /\ RunningIds(sched.running) \subseteq EnvelopeIds /\ RunningIds(sched.interrupt) \subseteq EnvelopeIds
         /\ CompletedIds(sched) \subseteq EnvelopeIds
<1>1. sched \in SchedulerStates /\ submitted \in Nat
  BY DEF TypeOK
<1>2. QueueIds(sched.pending) \subseteq EnvelopeIds /\ QueueIds(sched.interruptPending) \subseteq EnvelopeIds
  BY <1>1, FieldTypes, QueueIdsType
<1>3. RunningIds(sched.running) \subseteq EnvelopeIds /\ RunningIds(sched.interrupt) \subseteq EnvelopeIds
  BY <1>1, FieldTypes, SlotIds DEF RunningIds
<1>4. \A i \in DOMAIN sched.completed : sched.completed[i] \in Completed
  BY <1>1, FieldTypes, ElementOfSeq, LenProperties
<1>5. CompletedIds(sched) \subseteq EnvelopeIds
  BY <1>4 DEF CompletedIds, Completed, Envelopes
<1>6. QED
  BY <1>1, <1>2, <1>3, <1>5, SchedulerAssumption DEF Waiting, CompletedIds, LogIds

\* Nothing new is known, and what is known did not multiply.
LEMMA NothingNew ==
  ASSUME SubmittedOnce, submitted' = submitted, Unique(sched'.pending), Unique(sched'.interruptPending),
         QueueIds(sched'.pending) \subseteq QueueIds(sched.pending),
         QueueIds(sched'.interruptPending) \subseteq QueueIds(sched.interruptPending),
         RunningIds(sched'.running) \subseteq RunningIds(sched.running),
         RunningIds(sched'.interrupt) \subseteq RunningIds(sched.interrupt),
         CompletedIds(sched') \subseteq CompletedIds(sched) \cup RunningIds(sched.running) \cup RunningIds(sched.interrupt)
  PROVE  SubmittedOnce'
<1>1. Distinct(sched') /\ KnownIds(sched') \subseteq KnownIds(sched)
  BY DEF SubmittedOnce, Distinct, Waiting, KnownIds
<1>2. QED
  BY <1>1 DEF SubmittedOnce

\* The slots say the same of who is active.
LEMMA SameSlots ==
  ASSUME RunningIds(sched'.running) = RunningIds(sched.running),
         RunningIds(sched'.interrupt) = RunningIds(sched.interrupt),
         sched'.running # None /\ sched.running # None => sched'.running.paused = sched.running.paused
  PROVE  ActiveOf(sched') = ActiveOf(sched) /\ SuspendedOf(sched') = SuspendedOf(sched)
<1>1. (sched'.running = None <=> sched.running = None) /\ (sched'.interrupt = None <=> sched.interrupt = None)
  BY DEF RunningIds
<1>2. /\ sched.running # None => sched'.running.env.id = sched.running.env.id
      /\ sched.interrupt # None => sched'.interrupt.env.id = sched.interrupt.env.id
  BY <1>1 DEF RunningIds
<1>3. QED
  BY <1>1, <1>2 DEF ActiveOf, SuspendedOf, Ongoing

LEMMA NothingHappens ==
  ASSUME SubmittedOnce, submitted' = submitted, sched'.pending = sched.pending,
         QueueIds(sched'.interruptPending) = QueueIds(sched.interruptPending), Unique(sched'.interruptPending),
         RunningIds(sched'.running) = RunningIds(sched.running),
         RunningIds(sched'.interrupt) = RunningIds(sched.interrupt),
         sched'.running # None /\ sched.running # None => sched'.running.paused = sched.running.paused,
         sched'.completed = sched.completed
  PROVE  SubmittedOnce' /\ UNCHANGED Abstract!vars
<1>1. CompletedIds(sched') = CompletedIds(sched) /\ Waiting(sched') = Waiting(sched)
  BY DEF CompletedIds, Waiting
<1>2. SubmittedOnce'
  BY <1>1, NothingNew DEF SubmittedOnce, Distinct
<1>3. QED
  BY <1>1, <1>2, SameSlots, ViewKept

LEMMA LeaseView ==
  ASSUME RefinementInv,
         (\E o \in Owners : ClaimLane(o)) \/ (\E c \in issued : ReleaseLane(c))
  PROVE  SubmittedOnce' /\ UNCHANGED Abstract!vars
<1>1. sched \in SchedulerStates /\ submitted' = submitted
  BY DEF RefinementInv, TypeOK, ClaimLane, ReleaseLane
<1>2. /\ sched'.pending = sched.pending /\ sched'.interruptPending = sched.interruptPending
      /\ sched'.running = sched.running /\ sched'.interrupt = sched.interrupt
      /\ sched'.completed = sched.completed
  BY <1>1 DEF ClaimLane, ReleaseLane, Claim, Release, Invalidate, SchedulerStates
<1>3. QED
  BY <1>1, <1>2, NothingHappens DEF RefinementInv, SubmittedOnce, Distinct

LEMMA MaterializeView ==
  ASSUME RefinementInv, MaterializeReturn
  PROVE  SubmittedOnce' /\ UNCHANGED Abstract!vars
<1>1. sched \in SchedulerStates /\ submitted' = submitted
  BY DEF RefinementInv, TypeOK, MaterializeReturn
<1>2. sched' = ReplaceInterruptPolicy(sched, "client_return_to_origin", "client_return_to_origin_ready")
  BY DEF MaterializeReturn
<1>3. /\ sched'.pending = sched.pending
      /\ sched'.running = sched.running /\ sched'.interrupt = sched.interrupt
      /\ sched'.completed = sched.completed
  BY <1>1, <1>2 DEF ReplaceInterruptPolicy, SchedulerStates
<1>4. /\ QueueIds(sched'.interruptPending) = QueueIds(sched.interruptPending)
      /\ Unique(sched.interruptPending) => Unique(sched'.interruptPending)
  BY <1>1, <1>2, ReplaceIds
<1>5. QED
  BY <1>1, <1>3, <1>4, NothingHappens DEF RefinementInv, SubmittedOnce, Distinct

LEMMA ContinuationView ==
  ASSUME RefinementInv, NEW lane \in Lanes, NEW k \in Continuations \cup {None}, StoreContinuation(lane, k)
  PROVE  SubmittedOnce' /\ UNCHANGED Abstract!vars
<1>1. sched \in SchedulerStates /\ submitted' = submitted
  BY DEF RefinementInv, TypeOK, StoreContinuation
<1>2. ASSUME NEW r \in Running
      PROVE  [r EXCEPT !.cont = k] # None /\ [r EXCEPT !.cont = k].env = r.env /\ [r EXCEPT !.cont = k].paused = r.paused
  <2>1. [r EXCEPT !.cont = k] \in Running
    BY DEF Running
  <2>2. QED
    BY <2>1, NoneAssumption DEF Running
<1>3. CASE lane = "normal"
  <2>1. sched.running \in Running
    BY <1>1, <1>3, FieldTypes DEF StoreContinuation, LaneRunning
  <2>2. /\ sched'.pending = sched.pending /\ sched'.interruptPending = sched.interruptPending
        /\ sched'.running = [sched.running EXCEPT !.cont = k] /\ sched'.interrupt = sched.interrupt
        /\ sched'.completed = sched.completed
    BY <1>1, <1>3 DEF StoreContinuation, LaneRunning, SetContinuation, SchedulerStates
  <2>3. RunningIds(sched'.running) = RunningIds(sched.running) /\ sched'.running.paused = sched.running.paused
    BY <1>2, <2>1, <2>2, NoneAssumption DEF RunningIds
  <2>4. QED
    BY <1>1, <2>2, <2>3, NothingHappens DEF RefinementInv, SubmittedOnce, Distinct
<1>4. CASE lane = "interrupt"
  <2>1. sched.interrupt \in Running
    BY <1>1, <1>4, FieldTypes DEF StoreContinuation, LaneRunning
  <2>2. /\ sched'.pending = sched.pending /\ sched'.interruptPending = sched.interruptPending
        /\ sched'.interrupt = [sched.interrupt EXCEPT !.cont = k] /\ sched'.running = sched.running
        /\ sched'.completed = sched.completed
    BY <1>1, <1>4 DEF StoreContinuation, LaneRunning, SetContinuation, SchedulerStates
  <2>3. RunningIds(sched'.interrupt) = RunningIds(sched.interrupt)
    BY <1>2, <2>1, <2>2, NoneAssumption DEF RunningIds
  <2>4. QED
    BY <1>1, <2>2, <2>3, NothingHappens DEF RefinementInv, SubmittedOnce, Distinct
<1>5. QED
  BY <1>3, <1>4 DEF Lanes

\* Who ends a run, or everything, drops what waits and finishes what had started.
LEMMA StopView ==
  ASSUME RefinementInv, PausedIffPreempted', TypeOK', (\E c \in issued : CancelLane(c)) \/ HaltAll
  PROVE  SubmittedOnce' /\ Abstract!Next
<1>1. /\ sched \in SchedulerStates /\ sched' \in SchedulerStates /\ submitted' = submitted
      /\ SubmittedOnce /\ PauseFlagCorrect(sched) /\ PauseFlagCorrect(sched')
      /\ CompletedIds(sched) = LogIds(sched.completed) /\ CompletedIds(sched') = LogIds(sched'.completed)
  BY StateIds DEF RefinementInv, TypeOK, CancelLane, HaltAll, PausedIffPreempted, CompletedIds, LogIds
<1>2. sched.completed \in Seq(Completed) /\ CancelRecord(sched.running) \in Seq(Completed)
      /\ CancelRecord(sched.interrupt) \in Seq(Completed)
  BY <1>1, FieldTypes, CancelRecordType
<1>3. /\ RunningIds(sched.running) \cap RunningIds(sched.interrupt) = {} /\ RunningIds(None) = {}
      /\ Unique(sched.pending) /\ Unique(sched.interruptPending)
  BY <1>1 DEF SubmittedOnce, Distinct, RunningIds
<1>4. CASE \E c \in issued : CancelLane(c)
  <2>1. /\ sched'.pending = <<>> /\ sched'.interruptPending = sched.interruptPending
        /\ sched'.running = None /\ sched'.interrupt = sched.interrupt
        /\ sched'.completed = sched.completed \o CancelRecord(sched.running)
    BY <1>1, <1>4 DEF CancelLane, Cancel, Invalidate, SchedulerStates
  <2>2. CompletedIds(sched') = CompletedIds(sched) \cup RunningIds(sched.running)
    BY <1>1, <1>2, <2>1, LogConcat, CancelRecordIds, FieldTypes
  <2>3. SubmittedOnce'
    BY <1>1, <1>3, <2>1, <2>2, EmptyIds, NothingNew
  <2>4. Waiting(sched') \subseteq Waiting(sched)
    BY <2>1, EmptyIds DEF Waiting
  <2>5. /\ RunningIds(sched.running) \subseteq {ActiveOf(sched), SuspendedOf(sched)} /\ None \notin RunningIds(sched.running)
        /\ ActiveOf(sched') = (IF ActiveOf(sched) \in RunningIds(sched.running) THEN None ELSE ActiveOf(sched))
        /\ SuspendedOf(sched') = (IF SuspendedOf(sched) \in RunningIds(sched.running) THEN None ELSE SuspendedOf(sched))
    <3>1. SuspendedOf(sched') = None /\ (sched.interrupt = None => ActiveOf(sched') = None)
      BY <1>1, <2>1, ViewCases
    <3>2. sched.interrupt # None => ActiveOf(sched') = ActiveOf(sched) /\ RunningIds(sched.interrupt) = {ActiveOf(sched)}
      BY <1>1, <2>1, ViewCases DEF ActiveOf
    <3>3. None \notin EnvelopeIds
      BY SchedulerAssumption
    <3>4. QED
      BY <1>1, <1>3, <3>1, <3>2, <3>3, ViewCases DEF InterruptBusy
  <2>6. QED
    BY <2>2, <2>3, <2>4, <2>5, ViewStops
<1>5. CASE HaltAll
  <2> DEFINE F == RunningIds(sched.running) \cup RunningIds(sched.interrupt)
  <2>1. /\ sched'.pending = <<>> /\ sched'.interruptPending = <<>>
        /\ sched'.running = None /\ sched'.interrupt = None
        /\ sched'.completed = sched.completed \o CancelRecord(sched.running) \o CancelRecord(sched.interrupt)
    BY <1>1, <1>5 DEF HaltAll, Halt, Invalidate, SchedulerStates
  <2>2. CompletedIds(sched') = CompletedIds(sched) \cup F
    <3>1. sched.completed \o CancelRecord(sched.running) \in Seq(Completed)
      BY <1>2, ConcatProperties
    <3>2. LogIds(sched.completed \o CancelRecord(sched.running) \o CancelRecord(sched.interrupt))
            = LogIds(sched.completed \o CancelRecord(sched.running)) \cup LogIds(CancelRecord(sched.interrupt))
      BY <1>2, <3>1, LogConcat
    <3>3. LogIds(sched.completed \o CancelRecord(sched.running))
            = LogIds(sched.completed) \cup LogIds(CancelRecord(sched.running))
      BY <1>2, LogConcat
    <3>4. QED
      BY <1>1, <2>1, <3>2, <3>3, CancelRecordIds, FieldTypes
  <2>3. SubmittedOnce'
    BY <1>1, <1>3, <2>1, <2>2, EmptyIds, NothingNew
  <2>4. Waiting(sched') \subseteq Waiting(sched)
    BY <2>1, EmptyIds DEF Waiting
  <2>5. /\ F \subseteq {ActiveOf(sched), SuspendedOf(sched)} /\ None \notin F
        /\ ActiveOf(sched') = None /\ SuspendedOf(sched') = None
        /\ ActiveOf(sched) \notin F => ActiveOf(sched) = None
        /\ SuspendedOf(sched) \notin F => SuspendedOf(sched) = None
    <3>1. SuspendedOf(sched') = None /\ ActiveOf(sched') = None
      BY <1>1, <2>1, ViewCases
    <3>2. None \notin EnvelopeIds
      BY SchedulerAssumption
    <3>3. QED
      BY <1>1, <3>1, <3>2, ViewCases DEF InterruptBusy
  <2>6. QED
    BY <2>2, <2>3, <2>4, <2>5, ViewStops
<1>6. QED
  BY <1>4, <1>5

\* A batch that is accepted.
LEMMA AcceptView ==
  ASSUME RefinementInv, PausedIffPreempted', TypeOK',
         NEW n \in 1..MaxBatch, NEW q \in Seq(Envelopes), q # <<>>, Unique(q),
         \A id \in QueueIds(q) : id > submitted /\ id <= submitted + n /\ id \in Nat,
         submitted' = submitted + n,
         sched' = AppendBatch(sched, q) \/ (CanAppendInterrupts(sched) /\ sched' = AppendInterrupts(sched, q))
  PROVE  SubmittedOnce' /\ Abstract!Next
<1> DEFINE S == QueueIds(q)
<1>1. /\ sched \in SchedulerStates /\ sched' \in SchedulerStates /\ submitted \in Nat
      /\ SubmittedOnce /\ PauseFlagCorrect(sched) /\ PauseFlagCorrect(sched')
      /\ KnownIds(sched) \subseteq Nat /\ None \notin EnvelopeIds /\ S \subseteq EnvelopeIds
  BY StateIds, QueueIdsType, SchedulerAssumption DEF RefinementInv, TypeOK, PausedIffPreempted, KnownIds
<1>2. S \cap KnownIds(sched) = {} /\ n \in Nat
  <2>1. \A id \in KnownIds(sched) : id <= submitted /\ id \in Nat
    BY <1>1 DEF SubmittedOnce
  <2>2. QED
    BY <1>1, <2>1, SchedulerAssumption
<1>3. /\ RunningIds(sched'.running) = RunningIds(sched.running) /\ sched'.interrupt = sched.interrupt
      /\ sched'.completed = sched.completed
      /\ \/ sched'.pending = sched.pending \o q /\ sched'.interruptPending = sched.interruptPending
            /\ sched'.running = sched.running
         \/ sched'.pending = sched.pending /\ sched'.interruptPending = sched.interruptPending \o q
            /\ sched.interrupt = None /\ sched.interruptPending = <<>>
            /\ sched'.running = SetPaused(sched.running, TRUE)
  BY <1>1, FieldTypes, SlotIds DEF AppendBatch, AppendInterrupts, CanAppendInterrupts, InterruptBusy, SchedulerStates
<1>4. sched.pending \in Seq(Envelopes) /\ sched.interruptPending \in Seq(Envelopes)
  BY <1>1, FieldTypes
<1>5. /\ Unique(sched.pending) /\ Unique(sched.interruptPending)
      /\ QueueIds(sched.pending) \subseteq KnownIds(sched) /\ QueueIds(sched.interruptPending) \subseteq KnownIds(sched)
  BY <1>1 DEF SubmittedOnce, Distinct, KnownIds, Waiting
<1>6. /\ QueueIds(sched.pending \o q) = QueueIds(sched.pending) \cup S /\ Unique(sched.pending \o q)
      /\ QueueIds(sched.interruptPending \o q) = QueueIds(sched.interruptPending) \cup S
      /\ Unique(sched.interruptPending \o q)
  <2>1. QueueIds(sched.pending) \cap QueueIds(q) = {} /\ QueueIds(sched.interruptPending) \cap QueueIds(q) = {}
    BY <1>2, <1>5
  <2>2. QED
    BY <1>4, <1>5, <2>1, ConcatIds
<1>7. Waiting(sched') = Waiting(sched) \cup S /\ CompletedIds(sched') = CompletedIds(sched)
  BY <1>3, <1>6 DEF Waiting, CompletedIds
<1>8. SubmittedOnce'
  <2> HIDE DEF S
  <2>1. S \cap Waiting(sched) = {} /\ S \cap RunningIds(sched.running) = {} /\ S \cap RunningIds(sched.interrupt) = {}
    BY <1>2 DEF KnownIds
  <2>2. Distinct(sched')
    BY <1>1, <1>3, <1>6, <1>7, <2>1 DEF SubmittedOnce, Distinct, Waiting
  <2>3. \A id \in KnownIds(sched') : id \in KnownIds(sched) \/ id \in S
    BY <1>3, <1>7 DEF KnownIds
  <2>4. \A id \in KnownIds(sched') : id <= submitted'
    <3>1. \A id \in KnownIds(sched) : id \in Nat /\ id <= submitted
      BY <1>1 DEF SubmittedOnce
    <3>2. \A id \in S : id <= submitted + n
      BY DEF S
    <3>3. QED
      BY <1>1, <1>2, <2>3, <3>1, <3>2
  <2>5. QED
    BY <2>2, <2>4 DEF SubmittedOnce
<1>9. S \cap (Waiting(sched) \cup {ActiveOf(sched), SuspendedOf(sched)} \cup CompletedIds(sched)) = {}
  <2>1. {ActiveOf(sched), SuspendedOf(sched)} \subseteq {None} \cup RunningIds(sched.running) \cup RunningIds(sched.interrupt)
    BY DEF ActiveOf, SuspendedOf, Ongoing, RunningIds
  <2>2. QED
    BY <1>1, <1>2, <2>1 DEF KnownIds
<1>10. \/ ActiveOf(sched') = ActiveOf(sched) /\ SuspendedOf(sched') = SuspendedOf(sched)
       \/ SuspendedOf(sched) = None /\ ActiveOf(sched') = None /\ SuspendedOf(sched') = ActiveOf(sched)
  <2>1. CASE sched'.running = sched.running
    BY <1>3, <2>1, SameSlots
  <2>2. CASE /\ sched.interrupt = None /\ sched.interruptPending = <<>>
             /\ sched'.running = SetPaused(sched.running, TRUE) /\ sched'.interruptPending = sched.interruptPending \o q
    <3>1. sched'.interruptPending # <<>>
      BY <1>4, <2>2, ConcatProperties
    <3>2. InterruptBusy(sched') /\ ~InterruptBusy(sched) /\ sched'.interrupt = None
      BY <1>3, <2>2, <3>1 DEF InterruptBusy
    <3>3. sched'.running = None <=> sched.running = None
      BY <1>3 DEF RunningIds
    <3>4. QED
      BY <1>1, <1>3, <2>2, <3>2, <3>3, ViewCases
  <2>3. QED
    BY <1>3, <2>1, <2>2
<1>11. QED
  BY <1>1, <1>7, <1>8, <1>9, <1>10, ViewAccepts

LEMMA StartView ==
  ASSUME RefinementInv, PausedIffPreempted', TypeOK', StartNextAction
  PROVE  SubmittedOnce' /\ (Abstract!Next \/ UNCHANGED Abstract!vars)
<1>1. /\ sched \in SchedulerStates /\ sched' \in SchedulerStates /\ submitted' = submitted
      /\ SubmittedOnce /\ PauseFlagCorrect(sched) /\ PauseFlagCorrect(sched')
      /\ Waiting(sched) \subseteq EnvelopeIds /\ Distinct(sched)
      /\ sched.pending \in Seq(Envelopes) /\ sched.interruptPending \in Seq(Envelopes)
  BY StateIds, FieldTypes DEF RefinementInv, TypeOK, StartNextAction, PausedIffPreempted, SubmittedOnce
<1>2. CASE CanStartInterrupt(sched)
  <2> DEFINE w == Head(sched.interruptPending).id
  <2>1. /\ sched' = StartInterrupt(sched) /\ sched.interrupt = None /\ sched.interruptPending # <<>>
    BY <1>2 DEF StartNextAction, StartNext, CanStartInterrupt
  <2>2. /\ sched'.interruptPending = Tail(sched.interruptPending) /\ sched'.pending = sched.pending
        /\ RunningIds(sched'.running) = RunningIds(sched.running) /\ sched'.completed = sched.completed
    BY <1>1, <2>1, FieldTypes, SlotIds DEF StartInterrupt, SchedulerStates
  <2>3. sched'.interrupt.env = Head(sched.interruptPending) /\ sched'.interrupt # None
    BY <1>1, <1>2, <2>1, StartInterruptStarts, StartedIsRunning
  <2>4. /\ w \in QueueIds(sched.interruptPending)
        /\ QueueIds(sched'.interruptPending) = QueueIds(sched.interruptPending) \ {w}
        /\ Unique(sched'.interruptPending)
    BY <1>1, <2>1, <2>2, TailIds DEF Distinct
  <2>5. RunningIds(sched'.interrupt) = {w} /\ RunningIds(sched.interrupt) = {}
    BY <2>1, <2>3 DEF RunningIds
  <2> HIDE DEF w
  <2>6. Waiting(sched') = Waiting(sched) \ {w} /\ w \in Waiting(sched) /\ CompletedIds(sched') = CompletedIds(sched)
    BY <1>1, <2>2, <2>4 DEF Waiting, Distinct, CompletedIds
  <2>7. SubmittedOnce'
    <3>1. Distinct(sched')
      BY <1>1, <2>2, <2>4, <2>5, <2>6 DEF Distinct, Waiting
    <3>2. KnownIds(sched') \subseteq KnownIds(sched)
      BY <2>2, <2>5, <2>6 DEF KnownIds
    <3>3. QED
      BY <1>1, <3>1, <3>2 DEF SubmittedOnce
  <2>8. InterruptBusy(sched) /\ InterruptBusy(sched')
    BY <2>1, <2>3 DEF InterruptBusy
  <2>9. ActiveOf(sched) = None /\ ActiveOf(sched') = w
    BY <1>1, <2>1, <2>3, <2>5, <2>8, ViewCases
  <2>10. SuspendedOf(sched') = SuspendedOf(sched)
    <3>1. sched'.running = None <=> sched.running = None
      BY <2>2 DEF RunningIds
    <3>2. CASE sched.running = None
      <4>1. SuspendedOf(sched) = None
        BY <1>1, <3>2, ViewCases
      <4>2. SuspendedOf(sched') = None
        BY <1>1, <3>1, <3>2, ViewCases
      <4>3. QED
        BY <4>1, <4>2
    <3>3. CASE sched.running # None
      <4>1. RunningIds(sched.running) = {SuspendedOf(sched)}
        BY <1>1, <2>8, <3>3, ViewCases
      <4>2. RunningIds(sched'.running) = {SuspendedOf(sched')}
        BY <1>1, <2>8, <3>1, <3>3, ViewCases
      <4>3. QED
        BY <2>2, <4>1, <4>2
    <3>4. QED
      BY <3>2, <3>3
  <2>11. QED
    BY <1>1, <2>6, <2>7, <2>9, <2>10, ViewStarts
<1>3. CASE ~CanStartInterrupt(sched) /\ CanStartNormal(sched)
  <2> DEFINE w == Head(sched.pending).id
  <2>1. sched' = StartNormal(sched) /\ ~InterruptBusy(sched) /\ sched.running = None /\ sched.pending # <<>>
    BY <1>3 DEF StartNextAction, StartNext, CanStartNormal
  <2>2. /\ sched'.interruptPending = sched.interruptPending /\ sched'.pending = Tail(sched.pending)
        /\ sched'.interrupt = sched.interrupt /\ sched'.completed = sched.completed
    BY <1>1, <2>1 DEF StartNormal, SchedulerStates
  <2>3. sched'.running.env = Head(sched.pending) /\ sched'.running # None
    BY <1>1, <1>3, <2>1, StartNormalStarts, StartedIsRunning
  <2>4. /\ w \in QueueIds(sched.pending)
        /\ QueueIds(sched'.pending) = QueueIds(sched.pending) \ {w}
        /\ Unique(sched'.pending)
    BY <1>1, <2>1, <2>2, TailIds DEF Distinct
  <2>5. RunningIds(sched'.running) = {w} /\ RunningIds(sched.running) = {} /\ RunningIds(sched'.interrupt) = {}
    BY <2>1, <2>2, <2>3 DEF RunningIds, InterruptBusy
  <2> HIDE DEF w
  <2>6. Waiting(sched') = Waiting(sched) \ {w} /\ w \in Waiting(sched) /\ CompletedIds(sched') = CompletedIds(sched)
    BY <1>1, <2>2, <2>4 DEF Waiting, Distinct, CompletedIds
  <2>7. SubmittedOnce'
    <3>1. Distinct(sched')
      BY <1>1, <2>2, <2>4, <2>5, <2>6 DEF Distinct, Waiting
    <3>2. KnownIds(sched') \subseteq KnownIds(sched)
      BY <2>2, <2>5, <2>6 DEF KnownIds
    <3>3. QED
      BY <1>1, <3>1, <3>2 DEF SubmittedOnce
  <2>8. ~InterruptBusy(sched') /\ sched.interrupt = None
    BY <2>1, <2>2 DEF InterruptBusy
  <2>9. ActiveOf(sched) = None /\ ActiveOf(sched') = w /\ SuspendedOf(sched') = SuspendedOf(sched)
    BY <1>1, <2>1, <2>3, <2>5, <2>8, ViewCases
  <2>10. QED
    BY <1>1, <2>6, <2>7, <2>9, ViewStarts
<1>4. CASE ~CanStartInterrupt(sched) /\ ~CanStartNormal(sched)
  <2>1. sched' = sched
    BY <1>4 DEF StartNextAction, StartNext
  <2>2. QED
    BY <1>1, <2>1, NothingHappens DEF Distinct
<1>5. QED
  BY <1>2, <1>3, <1>4

LEMMA CompleteView ==
  ASSUME RefinementInv, PausedIffPreempted', TypeOK', NEW lane \in Lanes, CompleteAction(lane, "succeeded")
  PROVE  SubmittedOnce' /\ Abstract!Next
<1>1. /\ sched \in SchedulerStates /\ sched' \in SchedulerStates /\ submitted' = submitted
      /\ SubmittedOnce /\ PauseFlagCorrect(sched) /\ PauseFlagCorrect(sched') /\ Distinct(sched)
      /\ CompletedIds(sched) = LogIds(sched.completed) /\ CompletedIds(sched') = LogIds(sched'.completed)
      /\ sched.completed \in Seq(Completed) /\ None \notin EnvelopeIds
  BY StateIds, FieldTypes DEF RefinementInv, TypeOK, CompleteAction, PausedIffPreempted, SubmittedOnce, CompletedIds, LogIds
<1>2. ASSUME NEW r \in Running
      PROVE  [env |-> r.env, outcome |-> "succeeded"] \in Completed
  BY DEF Running, Completed, Outcomes
<1>3. CASE lane = "normal"
  <2>1. sched.running \in Running /\ sched.running # None
    BY <1>1, <1>3, FieldTypes DEF CompleteAction, LaneRunning
  <2>2. /\ sched'.pending = sched.pending /\ sched'.interruptPending = sched.interruptPending
        /\ sched'.running = None /\ sched'.interrupt = sched.interrupt
        /\ sched'.completed = Append(sched.completed, [env |-> sched.running.env, outcome |-> "succeeded"])
    BY <1>1, <1>3, <2>1 DEF CompleteAction, Complete, CompleteNormal, SchedulerStates
  <2>3. CompletedIds(sched') = CompletedIds(sched) \cup {sched.running.env.id}
    BY <1>1, <1>2, <2>1, <2>2, AppendedIds
  <2>4. RunningIds(sched.running) = {sched.running.env.id} /\ RunningIds(sched'.running) = {}
    BY <2>1, <2>2 DEF RunningIds
  <2>5. SubmittedOnce'
    BY <1>1, <2>2, <2>3, <2>4, NothingNew DEF Distinct
  <2>6. Waiting(sched') = Waiting(sched) /\ SuspendedOf(sched') = None
    BY <1>1, <2>2, ViewCases DEF Waiting
  <2>7. CASE InterruptBusy(sched)
    <3>1. SuspendedOf(sched) = sched.running.env.id /\ SuspendedOf(sched) # None
      BY <1>1, <2>1, <2>4, <2>7, ViewCases
    <3>2. ActiveOf(sched') = ActiveOf(sched)
      <4>1. InterruptBusy(sched')
        BY <2>2, <2>7 DEF InterruptBusy
      <4>2. CASE sched.interrupt = None
        <5>1. ActiveOf(sched) = None
          BY <1>1, <2>7, <4>2, ViewCases
        <5>2. ActiveOf(sched') = None
          BY <1>1, <2>2, <4>1, <4>2, ViewCases
        <5>3. QED
          BY <5>1, <5>2
      <4>3. CASE sched.interrupt # None
        BY <2>2, <4>3 DEF ActiveOf
      <4>4. QED
        BY <4>2, <4>3
    <3>3. QED
      BY <2>3, <2>5, <2>6, <3>1, <3>2, ViewFinishes
  <2>8. CASE ~InterruptBusy(sched)
    <3>1. ActiveOf(sched) = sched.running.env.id /\ ActiveOf(sched) # None /\ SuspendedOf(sched) = None
      BY <1>1, <2>1, <2>4, <2>8, ViewCases
    <3>2. ActiveOf(sched') = None
      BY <1>1, <2>2, <2>8, ViewCases DEF InterruptBusy
    <3>3. QED
      BY <2>3, <2>5, <2>6, <3>1, <3>2, ViewFinishes
  <2>9. QED
    BY <2>7, <2>8
<1>4. CASE lane = "interrupt"
  <2>1. sched.interrupt \in Running /\ sched.interrupt # None
    BY <1>1, <1>4, FieldTypes DEF CompleteAction, LaneRunning
  <2>2. /\ sched'.pending = sched.pending /\ sched'.interruptPending = sched.interruptPending
        /\ sched'.interrupt = None /\ RunningIds(sched'.running) = RunningIds(sched.running)
        /\ sched'.completed = Append(sched.completed, [env |-> sched.interrupt.env, outcome |-> "succeeded"])
    BY <1>1, <1>4, <2>1, FieldTypes, SlotIds DEF CompleteAction, Complete, CompleteInterrupt, SchedulerStates
  <2>3. CompletedIds(sched') = CompletedIds(sched) \cup {sched.interrupt.env.id}
    BY <1>1, <1>2, <2>1, <2>2, AppendedIds
  <2>4. RunningIds(sched.interrupt) = {sched.interrupt.env.id} /\ RunningIds(sched'.interrupt) = {}
    BY <2>1, <2>2 DEF RunningIds
  <2>5. SubmittedOnce'
    BY <1>1, <2>2, <2>3, <2>4, NothingNew DEF Distinct
  <2>6. Waiting(sched') = Waiting(sched)
    BY <2>2 DEF Waiting
  <2>7. ActiveOf(sched) = sched.interrupt.env.id /\ ActiveOf(sched) # None /\ InterruptBusy(sched)
    BY <1>1, <2>1, <2>4, ViewCases DEF InterruptBusy
  <2>8. sched'.running = None <=> sched.running = None
    BY <2>2 DEF RunningIds
  <2>9. \/ ActiveOf(sched') = None /\ SuspendedOf(sched') = SuspendedOf(sched)
        \/ ActiveOf(sched') = SuspendedOf(sched) /\ SuspendedOf(sched') = None
    BY <1>1, <2>2, <2>7, <2>8, ViewCases
  <2>10. QED
    BY <2>3, <2>5, <2>6, <2>7, <2>9, ViewFinishes
<1>5. QED
  BY <1>3, <1>4 DEF Lanes

LEMMA RefinementStep == RefinementInv /\ [Next]_vars => RefinementInv' /\ [Abstract!Next]_(Abstract!vars)
<1> SUFFICES ASSUME RefinementInv, [Next]_vars PROVE RefinementInv' /\ [Abstract!Next]_(Abstract!vars)
  OBVIOUS
<1>1. TypeOK' /\ PausedIffPreempted' /\ submitted \in Nat
  BY TypeStep, PauseStep DEF RefinementInv, TypeOK
<1>2. SUFFICES SubmittedOnce' /\ (Abstract!Next \/ UNCHANGED Abstract!vars)
  BY <1>1 DEF RefinementInv
<1>3. CASE UNCHANGED vars
  BY <1>3, NothingHappens DEF vars, RefinementInv, SubmittedOnce, Distinct
<1>4. ASSUME NEW c \in issued, NEW n \in 1..MaxBatch, AppendWork(c, n)
      PROVE  SubmittedOnce' /\ Abstract!Next
  <2>1. /\ Batch(n, "run") \in Seq(Envelopes) /\ Batch(n, "run") # <<>> /\ Unique(Batch(n, "run"))
        /\ \A id \in QueueIds(Batch(n, "run")) : id > submitted /\ id <= submitted + n /\ id \in Nat
    BY <1>1, <1>4, BatchType, AppendWorkIds DEF AppendWork, Policies
  <2>2. QED
    BY <1>1, <1>4, <2>1, AcceptView DEF AppendWork
<1>5. ASSUME NEW n \in 1..MaxBatch, NEW last \in {"client", "client_return_to_origin"}, AppendOverride(n, last)
      PROVE  SubmittedOnce' /\ Abstract!Next
  <2> DEFINE q == InterruptBatch(n, last)
  <2>1. /\ q \in Seq(Envelopes) /\ q # <<>> /\ Unique(q)
        /\ \A id \in QueueIds(q) : id > submitted /\ id <= submitted + n /\ id \in Nat
    BY <1>1, <1>5, InterruptBatchType, AppendOverrideIds DEF AppendOverride, Policies
  <2>2. CanAppendInterrupts(sched) /\ sched' = AppendInterrupts(sched, q) /\ submitted' = submitted + n
    BY <1>5 DEF AppendOverride
  <2> HIDE DEF q
  <2>3. QED
    BY <1>1, <2>1, <2>2, AcceptView
<1>6. CASE (\E o \in Owners : ClaimLane(o)) \/ (\E c \in issued : ReleaseLane(c)) \/ MaterializeReturn
           \/ (\E lane \in Lanes, k \in Continuations \cup {None} : StoreContinuation(lane, k))
  BY <1>6, LeaseView, MaterializeView, ContinuationView
<1>7. CASE (\E g \in 0..MaxGeneration, o \in Owners : ReclaimLane(g, o))
  BY <1>7, LeaseView DEF ReclaimLane
<1>8. CASE (\E c \in issued : CancelLane(c)) \/ HaltAll \/ StartNextAction
           \/ (\E lane \in Lanes : CompleteAction(lane, "succeeded"))
  BY <1>1, <1>8, StopView, StartView, CompleteView
<1>9. QED
  BY <1>3, <1>4, <1>5, <1>6, <1>7, <1>8 DEF Next

LEMMA RefinementInit == Init => RefinementInv /\ Abstract!Init
<1> SUFFICES ASSUME Init PROVE RefinementInv /\ Abstract!Init
  OBVIOUS
<1>1. TypeOK /\ PausedIffPreempted
  BY TypeInit, PauseInit
<1>2. /\ sched.pending = <<>> /\ sched.interruptPending = <<>> /\ sched.running = None /\ sched.interrupt = None
      /\ sched.completed = <<>>
  BY DEF Init, NewScheduler
<1>3. Waiting(sched) = {} /\ CompletedIds(sched) = {} /\ RunningIds(sched.running) = {} /\ RunningIds(sched.interrupt) = {}
  BY <1>2, EmptyIds DEF Waiting, CompletedIds, LogIds, RunningIds
<1>4. SubmittedOnce
  BY <1>2, <1>3, EmptyIds DEF SubmittedOnce, Distinct, KnownIds, Waiting
<1>5. ActiveId = None /\ SuspendedId = None
  BY <1>2 DEF ActiveId, SuspendedId, Ongoing
<1>6. QED
  BY <1>1, <1>3, <1>4, <1>5 DEF RefinementInv, Abstract!Init, Waiting

\* The scheduler implements ExclusiveExecution: whatever callers do with lanes, claims and
\* interrupts, one action is active at a time, and work that is preempted is resumed or
\* finished, never lost and never run beside the work that preempted it.
THEOREM RefinesExclusiveExecution == Spec => ImplementsExclusiveExecution
BY RefinementInit, RefinementStep, PTL DEF Spec, ImplementsExclusiveExecution, Abstract!Spec
=============================================================================
