------------------------- MODULE SchedulerOpsProofs -------------------------
(***************************************************************************)
(* Every operation of SchedulerOps takes scheduler states to scheduler     *)
(* states.  The lemmas serve the proofs of every module that embeds a      *)
(* scheduler.                                                              *)
(***************************************************************************)
EXTENDS SchedulerOps, TLAPS, SequenceTheorems

\* A function on 1..n is a sequence.
LEMMA FunctionIsSequence ==
  ASSUME NEW S, NEW n \in Nat, NEW f \in [1..n -> S]
  PROVE  f \in Seq(S)
  BY SeqDef

\* What a scheduler state is made of, and the next generation it can reach.
LEMMA FieldTypes ==
  ASSUME NEW s \in SchedulerStates
  PROVE  /\ s.generation \in Nat /\ s.generation + 1 \in Nat
         /\ s.claim \in QueueClaims \cup {None}
         /\ s.pending \in Seq(Envelopes)
         /\ s.running \in Running \cup {None}
         /\ s.interruptPending \in Seq(Envelopes)
         /\ s.interrupt \in Running \cup {None}
         /\ s.completed \in Seq(Completed)
  BY DEF SchedulerStates

\* A started envelope, and a pause flag set on any slot, fit the slot's type.
LEMMA StartedType ==
  ASSUME NEW e \in Envelopes
  PROVE  Started(e) \in Running
  BY DEF Started, Running

LEMMA SetPausedType ==
  ASSUME NEW r \in Running \cup {None}, NEW b \in BOOLEAN
  PROVE  SetPaused(r, b) \in Running \cup {None}
  BY NoneAssumption DEF SetPaused, Running

\* The records left by a cleared slot extend the completion log.
LEMMA CancelRecordType ==
  ASSUME NEW r \in Running \cup {None}
  PROVE  CancelRecord(r) \in Seq(Completed)
<1>1. CASE r = None
  BY <1>1 DEF CancelRecord
<1>2. CASE r \in Running
  <2>1. r # None
    BY <1>2, NoneAssumption
  <2>2. [env |-> r.env, outcome |-> "cancelled"] \in Completed
    BY <1>2 DEF Running, Completed, Outcomes
  <2>3. QED
    BY <2>1, <2>2 DEF CancelRecord
<1>3. QED
  BY <1>1, <1>2

LEMMA NewSchedulerType == NewScheduler \in SchedulerStates
  BY DEF NewScheduler, SchedulerStates

LEMMA InvalidateType ==
  ASSUME NEW s \in SchedulerStates
  PROVE  Invalidate(s) \in SchedulerStates
  BY FieldTypes DEF Invalidate, SchedulerStates

LEMMA ClaimType ==
  ASSUME NEW s \in SchedulerStates, NEW o \in Owners
  PROVE  Claim(s, o) \in SchedulerStates
  BY FieldTypes DEF Claim, SchedulerStates, QueueClaims

LEMMA CancelType ==
  ASSUME NEW s \in SchedulerStates
  PROVE  Cancel(s) \in SchedulerStates
<1> DEFINE log == s.completed \o CancelRecord(s.running)
           t   == [s EXCEPT !.pending = <<>>, !.running = None, !.completed = log]
<1>1. log \in Seq(Completed)
  BY FieldTypes, CancelRecordType
<1>2. t \in SchedulerStates
  <2> DEFINE empty == <<>>
  <2>1. empty \in Seq(Envelopes)
    BY EmptySeq
  <2> HIDE DEF log, empty
  <2>2. [s EXCEPT !.pending = empty, !.running = None, !.completed = log] \in SchedulerStates
    BY <1>1, <2>1 DEF SchedulerStates
  <2>3. QED
    BY <2>2 DEF empty
<1>3. Invalidate(t) \in SchedulerStates
  BY <1>2, InvalidateType
<1>4. QED
  BY <1>3 DEF Cancel

LEMMA HaltType ==
  ASSUME NEW s \in SchedulerStates
  PROVE  Halt(s) \in SchedulerStates
<1> DEFINE log == s.completed \o CancelRecord(s.running) \o CancelRecord(s.interrupt)
           t   == [s EXCEPT !.pending = <<>>, !.interruptPending = <<>>,
                            !.running = None, !.interrupt = None, !.completed = log]
<1>1. log \in Seq(Completed)
  BY FieldTypes, CancelRecordType
<1>2. t \in SchedulerStates
  <2> DEFINE empty == <<>>
  <2>1. empty \in Seq(Envelopes)
    BY EmptySeq
  <2> HIDE DEF log, empty
  <2>2. [s EXCEPT !.pending = empty, !.interruptPending = empty, !.running = None,
                  !.interrupt = None, !.completed = log] \in SchedulerStates
    BY <1>1, <2>1 DEF SchedulerStates
  <2>3. QED
    BY <2>2 DEF empty
<1>3. Invalidate(t) \in SchedulerStates
  BY <1>2, InvalidateType
<1>4. QED
  BY <1>3 DEF Halt

LEMMA AppendBatchType ==
  ASSUME NEW s \in SchedulerStates, NEW batch \in Seq(Envelopes)
  PROVE  AppendBatch(s, batch) \in SchedulerStates
<1> DEFINE q == s.pending \o batch
<1>1. q \in Seq(Envelopes)
  BY FieldTypes
<1> HIDE DEF q
<1>2. [s EXCEPT !.pending = q] \in SchedulerStates
  BY <1>1 DEF SchedulerStates
<1>3. QED
  BY <1>2 DEF AppendBatch, q

LEMMA AppendInterruptsType ==
  ASSUME NEW s \in SchedulerStates, NEW batch \in Seq(Envelopes)
  PROVE  AppendInterrupts(s, batch) \in SchedulerStates
<1> DEFINE q == s.interruptPending \o batch
           r == SetPaused(s.running, TRUE)
<1>1. q \in Seq(Envelopes)
  BY FieldTypes
<1>2. r \in Running \cup {None}
  BY FieldTypes, SetPausedType
<1> HIDE DEF q, r
<1>3. [s EXCEPT !.interruptPending = q, !.running = r] \in SchedulerStates
  BY <1>1, <1>2 DEF SchedulerStates
<1>4. QED
  BY <1>3 DEF AppendInterrupts, q, r

LEMMA ReplaceInterruptPolicyType ==
  ASSUME NEW s \in SchedulerStates, NEW old, NEW new \in Policies
  PROVE  ReplaceInterruptPolicy(s, old, new) \in SchedulerStates
<1> DEFINE q == [i \in DOMAIN s.interruptPending |->
                   IF s.interruptPending[i].policy = old
                   THEN [s.interruptPending[i] EXCEPT !.policy = new]
                   ELSE s.interruptPending[i]]
<1>1. s.interruptPending \in Seq(Envelopes)
  BY FieldTypes
<1>2. ASSUME NEW i \in DOMAIN s.interruptPending
      PROVE  q[i] \in Envelopes
  <2>1. s.interruptPending[i] \in Envelopes
    BY <1>1
  <2>2. [s.interruptPending[i] EXCEPT !.policy = new] \in Envelopes
    BY <2>1 DEF Envelopes
  <2>3. QED
    BY <2>1, <2>2
<1>3. q \in Seq(Envelopes)
  <2>1. DOMAIN s.interruptPending = 1..Len(s.interruptPending)
    BY <1>1
  <2>2. q \in [1..Len(s.interruptPending) -> Envelopes]
    BY <1>2, <2>1
  <2>3. Len(s.interruptPending) \in Nat
    BY <1>1
  <2>4. QED
    BY <2>2, <2>3, FunctionIsSequence
<1> HIDE DEF q
<1>4. [s EXCEPT !.interruptPending = q] \in SchedulerStates
  BY <1>3 DEF SchedulerStates
<1>5. QED
  BY <1>4 DEF ReplaceInterruptPolicy, q

LEMMA StartInterruptType ==
  ASSUME NEW s \in SchedulerStates, CanStartInterrupt(s)
  PROVE  StartInterrupt(s) \in SchedulerStates
<1> DEFINE r == Started(Head(s.interruptPending))
           q == Tail(s.interruptPending)
           n == SetPaused(s.running, TRUE)
<1>1. q \in Seq(Envelopes) /\ Head(s.interruptPending) \in Envelopes
  BY FieldTypes DEF CanStartInterrupt
<1>2. r \in Running \cup {None}
  BY <1>1, StartedType
<1>3. n \in Running \cup {None}
  BY FieldTypes, SetPausedType
<1> HIDE DEF r, q, n
<1>4. [s EXCEPT !.interrupt = r, !.interruptPending = q, !.running = n] \in SchedulerStates
  BY <1>1, <1>2, <1>3 DEF SchedulerStates
<1>5. QED
  BY <1>4 DEF StartInterrupt, r, q, n

LEMMA StartNormalType ==
  ASSUME NEW s \in SchedulerStates, CanStartNormal(s)
  PROVE  StartNormal(s) \in SchedulerStates
<1> DEFINE r == Started(Head(s.pending))
           q == Tail(s.pending)
<1>1. q \in Seq(Envelopes) /\ Head(s.pending) \in Envelopes
  BY FieldTypes DEF CanStartNormal
<1>2. r \in Running \cup {None}
  BY <1>1, StartedType
<1> HIDE DEF r, q
<1>3. [s EXCEPT !.running = r, !.pending = q] \in SchedulerStates
  BY <1>1, <1>2 DEF SchedulerStates
<1>4. QED
  BY <1>3 DEF StartNormal, r, q

\* What a start leaves in the slot.
LEMMA StartInterruptStarts ==
  ASSUME NEW s \in SchedulerStates, CanStartInterrupt(s)
  PROVE  /\ StartInterrupt(s).interrupt = Started(Head(s.interruptPending))
         /\ StartInterrupt(s).interrupt.env = Head(s.interruptPending)
         /\ StartInterrupt(s).interrupt.env \in Envelopes
<1>1. StartInterrupt(s).interrupt = Started(Head(s.interruptPending))
  BY DEF StartInterrupt, SchedulerStates
<1>2. Head(s.interruptPending) \in Envelopes
  BY FieldTypes DEF CanStartInterrupt
<1>3. QED
  BY <1>1, <1>2 DEF Started

LEMMA StartNormalStarts ==
  ASSUME NEW s \in SchedulerStates, CanStartNormal(s)
  PROVE  /\ StartNormal(s).running = Started(Head(s.pending))
         /\ StartNormal(s).running.env = Head(s.pending)
         /\ StartNormal(s).running.env \in Envelopes
<1>1. StartNormal(s).running = Started(Head(s.pending))
  BY DEF StartNormal, SchedulerStates
<1>2. Head(s.pending) \in Envelopes
  BY FieldTypes DEF CanStartNormal
<1>3. QED
  BY <1>1, <1>2 DEF Started

\* An idle lane with a fresh batch can start.
LEMMA AppendBatchStartable ==
  ASSUME NEW s \in SchedulerStates, NEW batch \in Seq(Envelopes), batch # <<>>,
         ~InterruptBusy(s), s.running = None
  PROVE  CanStartNormal(AppendBatch(s, batch))
<1> DEFINE t == AppendBatch(s, batch)
<1>1. t.pending = s.pending \o batch /\ t.running = None
  BY DEF AppendBatch, SchedulerStates
<1>2. t.interrupt = s.interrupt /\ t.interruptPending = s.interruptPending
  BY DEF AppendBatch, SchedulerStates
<1>3. t.pending # <<>>
  BY <1>1, FieldTypes, ConcatProperties
<1>4. QED
  BY <1>1, <1>2, <1>3 DEF CanStartNormal, InterruptBusy

LEMMA ReplaceInterruptPolicyKeepsLength ==
  ASSUME NEW s \in SchedulerStates, NEW old, NEW new
  PROVE  LET t == ReplaceInterruptPolicy(s, old, new) IN
         /\ t.running = s.running /\ t.interrupt = s.interrupt /\ t.pending = s.pending
         /\ t.interruptPending = <<>> <=> s.interruptPending = <<>>
<1> DEFINE t == ReplaceInterruptPolicy(s, old, new)
<1>1. t.running = s.running /\ t.interrupt = s.interrupt /\ t.pending = s.pending
  BY DEF ReplaceInterruptPolicy, SchedulerStates
<1>2. DOMAIN t.interruptPending = DOMAIN s.interruptPending
  BY DEF ReplaceInterruptPolicy, SchedulerStates
<1>3. t.interruptPending = <<>> <=> s.interruptPending = <<>>
  BY <1>2, FieldTypes
<1>4. QED
  BY <1>1, <1>3

LEMMA StartNextType ==
  ASSUME NEW s \in SchedulerStates
  PROVE  StartNext(s) \in SchedulerStates
  BY FieldTypes, StartInterruptType, StartNormalType DEF StartNext

LEMMA SetContinuationType ==
  ASSUME NEW s \in SchedulerStates, NEW lane \in Lanes, NEW k \in Continuations \cup {None}
  PROVE  SetContinuation(s, lane, k) \in SchedulerStates
  BY FieldTypes DEF SetContinuation, SchedulerStates, Running, Lanes

LEMMA CompleteNormalType ==
  ASSUME NEW s \in SchedulerStates, NEW outcome \in Outcomes, s.running # None
  PROVE  CompleteNormal(s, outcome) \in SchedulerStates
<1> DEFINE log == Append(s.completed, [env |-> s.running.env, outcome |-> outcome])
<1>1. [env |-> s.running.env, outcome |-> outcome] \in Completed
  BY FieldTypes DEF Running, Completed
<1>2. log \in Seq(Completed)
  BY <1>1, FieldTypes
<1> HIDE DEF log
<1>3. [s EXCEPT !.running = None, !.completed = log] \in SchedulerStates
  BY <1>2 DEF SchedulerStates
<1>4. QED
  BY <1>3 DEF CompleteNormal, log

LEMMA CompleteInterruptType ==
  ASSUME NEW s \in SchedulerStates, NEW outcome \in Outcomes, s.interrupt # None
  PROVE  CompleteInterrupt(s, outcome) \in SchedulerStates
<1> DEFINE log == Append(s.completed, [env |-> s.interrupt.env, outcome |-> outcome])
           r   == IF s.interruptPending = <<>> THEN SetPaused(s.running, FALSE) ELSE s.running
<1>1. [env |-> s.interrupt.env, outcome |-> outcome] \in Completed
  BY FieldTypes DEF Running, Completed
<1>2. log \in Seq(Completed)
  BY <1>1, FieldTypes
<1>3. r \in Running \cup {None}
  BY FieldTypes, SetPausedType
<1> HIDE DEF log, r
<1>4. [s EXCEPT !.interrupt = None, !.completed = log, !.running = r] \in SchedulerStates
  BY <1>2, <1>3 DEF SchedulerStates
<1>5. QED
  BY <1>4 DEF CompleteInterrupt, log, r

LEMMA CompleteType ==
  ASSUME NEW s \in SchedulerStates, NEW lane \in Lanes, NEW outcome \in Outcomes
  PROVE  Complete(s, lane, outcome) \in SchedulerStates
  BY FieldTypes, CompleteNormalType, CompleteInterruptType DEF Complete

-----------------------------------------------------------------------------
(* The pause flag. *)

\* A lane that starts is busy, and pausing writes the flag and nothing else.
LEMMA StartedIsRunning ==
  ASSUME NEW e \in Envelopes
  PROVE  Started(e) # None
  BY StartedType, NoneAssumption

LEMMA SetPausedFlag ==
  ASSUME NEW r \in Running \cup {None}, NEW b \in BOOLEAN
  PROVE  /\ SetPaused(r, b) = None <=> r = None
         /\ r # None => SetPaused(r, b).paused = b
  BY SetPausedType, NoneAssumption DEF SetPaused, Running

\* A step that leaves the lanes alone leaves the flag alone.
LEMMA LanesUntouched ==
  ASSUME NEW s, NEW t, PauseFlagCorrect(s),
         t.running = s.running, t.interrupt = s.interrupt, t.interruptPending = s.interruptPending
  PROVE  PauseFlagCorrect(t)
  BY DEF PauseFlagCorrect, InterruptBusy

\* Ending a claim's work empties the slot that the flag belongs to.
LEMMA InvalidateFlag ==
  ASSUME NEW s \in SchedulerStates, PauseFlagCorrect(s)
  PROVE  PauseFlagCorrect(Invalidate(s))
  BY LanesUntouched DEF Invalidate, SchedulerStates

LEMMA ClaimFlag ==
  ASSUME NEW s \in SchedulerStates, NEW o, PauseFlagCorrect(s)
  PROVE  PauseFlagCorrect(Claim(s, o))
  BY LanesUntouched DEF Claim, SchedulerStates

LEMMA CancelFlag ==
  ASSUME NEW s \in SchedulerStates
  PROVE  PauseFlagCorrect(Cancel(s))
  BY DEF Cancel, Invalidate, PauseFlagCorrect, SchedulerStates

LEMMA HaltFlag ==
  ASSUME NEW s \in SchedulerStates
  PROVE  PauseFlagCorrect(Halt(s))
  BY DEF Halt, Invalidate, PauseFlagCorrect, SchedulerStates

LEMMA AppendBatchFlag ==
  ASSUME NEW s \in SchedulerStates, NEW batch, PauseFlagCorrect(s)
  PROVE  PauseFlagCorrect(AppendBatch(s, batch))
<1> DEFINE q == s.pending \o batch
           t == [s EXCEPT !.pending = q]
<1> HIDE DEF q
<1>1. t.running = s.running /\ t.interrupt = s.interrupt /\ t.interruptPending = s.interruptPending
  BY DEF SchedulerStates
<1> HIDE DEF t
<1>2. PauseFlagCorrect(t)
  BY <1>1, LanesUntouched
<1>3. QED
  BY <1>2 DEF AppendBatch, t, q

LEMMA AppendInterruptsFlag ==
  ASSUME NEW s \in SchedulerStates, NEW batch \in Seq(Envelopes), batch # <<>>
  PROVE  PauseFlagCorrect(AppendInterrupts(s, batch))
<1> DEFINE t == AppendInterrupts(s, batch)
<1>1. t.running = SetPaused(s.running, TRUE) /\ t.interruptPending = s.interruptPending \o batch
  BY DEF AppendInterrupts, SchedulerStates
<1>2. t.interruptPending # <<>>
  BY <1>1, FieldTypes, ConcatProperties
<1>3. QED
  BY <1>1, <1>2, FieldTypes, SetPausedFlag DEF PauseFlagCorrect, InterruptBusy

LEMMA ReplaceInterruptPolicyFlag ==
  ASSUME NEW s \in SchedulerStates, NEW old, NEW new, PauseFlagCorrect(s)
  PROVE  PauseFlagCorrect(ReplaceInterruptPolicy(s, old, new))
  BY ReplaceInterruptPolicyKeepsLength DEF PauseFlagCorrect, InterruptBusy

LEMMA StartNextFlag ==
  ASSUME NEW s \in SchedulerStates, PauseFlagCorrect(s)
  PROVE  PauseFlagCorrect(StartNext(s))
<1>1. CASE CanStartInterrupt(s)
  <2> DEFINE t == StartInterrupt(s)
  <2>1. t.running = SetPaused(s.running, TRUE) /\ t.interrupt = Started(Head(s.interruptPending))
    BY DEF StartInterrupt, SchedulerStates
  <2>2. t.interrupt # None
    BY <1>1, <2>1, FieldTypes, StartedIsRunning DEF CanStartInterrupt
  <2>3. QED
    BY <1>1, <2>1, <2>2, FieldTypes, SetPausedFlag DEF StartNext, PauseFlagCorrect, InterruptBusy
<1>2. CASE ~CanStartInterrupt(s) /\ CanStartNormal(s)
  <2> DEFINE t == StartNormal(s)
  <2>1. /\ t.running = Started(Head(s.pending))
        /\ t.interrupt = s.interrupt /\ t.interruptPending = s.interruptPending
    BY DEF StartNormal, SchedulerStates
  <2>2. ~t.running.paused /\ ~InterruptBusy(t)
    BY <1>2, <2>1 DEF CanStartNormal, Started, InterruptBusy
  <2>3. QED
    BY <1>2, <2>2 DEF StartNext, PauseFlagCorrect
<1>3. CASE ~CanStartInterrupt(s) /\ ~CanStartNormal(s)
  BY <1>3 DEF StartNext
<1>4. QED
  BY <1>1, <1>2, <1>3

LEMMA SetContinuationFlag ==
  ASSUME NEW s \in SchedulerStates, NEW lane, NEW k \in Continuations \cup {None},
         PauseFlagCorrect(s)
  PROVE  PauseFlagCorrect(SetContinuation(s, lane, k))
<1>1. CASE lane = "normal" /\ s.running # None
  <2> DEFINE t == [s EXCEPT !.running.cont = k]
  <2>1. t.running.paused = s.running.paused
    BY <1>1, FieldTypes DEF SchedulerStates, Running
  <2>2. t.interrupt = s.interrupt /\ t.interruptPending = s.interruptPending
    BY DEF SchedulerStates
  <2>3. QED
    BY <1>1, <2>1, <2>2 DEF SetContinuation, PauseFlagCorrect, InterruptBusy
<1>2. CASE lane = "interrupt" /\ s.interrupt # None
  <2> DEFINE t == [s EXCEPT !.interrupt.cont = k]
  <2>1. t.interrupt # None
    <3>1. t.interrupt = [s.interrupt EXCEPT !.cont = k]
      BY DEF SchedulerStates
    <3>2. s.interrupt \in Running
      BY <1>2, FieldTypes
    <3>3. [s.interrupt EXCEPT !.cont = k] \in Running
      BY <3>2 DEF Running
    <3>4. QED
      BY <3>1, <3>3, NoneAssumption
  <2>2. t.running = s.running
    BY DEF SchedulerStates
  <2>3. QED
    BY <1>2, <2>1, <2>2 DEF SetContinuation, PauseFlagCorrect, InterruptBusy
<1>3. CASE SetContinuation(s, lane, k) = s
  BY <1>3
<1>4. QED
  BY <1>1, <1>2, <1>3 DEF SetContinuation

LEMMA CompleteFlag ==
  ASSUME NEW s \in SchedulerStates, NEW lane, NEW outcome, PauseFlagCorrect(s)
  PROVE  PauseFlagCorrect(Complete(s, lane, outcome))
<1>1. CASE lane = "normal" /\ s.running # None
  BY <1>1 DEF Complete, CompleteNormal, PauseFlagCorrect, SchedulerStates
<1>2. CASE lane = "interrupt" /\ s.interrupt # None
  <2> DEFINE t == CompleteInterrupt(s, outcome)
  <2>1. /\ t.interrupt = None /\ t.interruptPending = s.interruptPending
        /\ t.running = IF s.interruptPending = <<>> THEN SetPaused(s.running, FALSE) ELSE s.running
    BY DEF CompleteInterrupt, SchedulerStates
  <2> HIDE DEF t
  <2>2. PauseFlagCorrect(t)
    <3>1. CASE s.interruptPending = <<>>
      BY <2>1, <3>1, FieldTypes, SetPausedFlag DEF PauseFlagCorrect, InterruptBusy
    <3>2. CASE s.interruptPending # <<>>
      BY <1>2, <2>1, <3>2 DEF PauseFlagCorrect, InterruptBusy
    <3>3. QED
      BY <3>1, <3>2
  <2>3. QED
    BY <1>2, <2>2 DEF Complete, t
<1>3. CASE Complete(s, lane, outcome) = s
  BY <1>3
<1>4. QED
  BY <1>1, <1>2, <1>3 DEF Complete
=============================================================================
