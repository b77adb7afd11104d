---------------------------- MODULE SchedulerOps ----------------------------
(***************************************************************************)
(* The operations of prayer-scheduler's Scheduler as functions of its      *)
(* state, so that the scheduler's own state machine (Scheduler) and the    *)
(* engine that embeds it (RuntimeEngine) take the same steps.              *)
(*                                                                         *)
(* A state is a record.  Its two lanes each hold at most one running       *)
(* action and a queue of envelopes:                                        *)
(*                                                                         *)
(*    normal     running / pending            guarded by `claim`           *)
(*    interrupt  interrupt / interruptPending takes precedence             *)
(*                                                                         *)
(* An envelope is its id and its policy (the ActionOrigin); what the       *)
(* action does is abstracted.  Left out: `events`, which nothing reads     *)
(* back, the schema versions, which one build never mismatches, and        *)
(* `halted`, which no method ever sets (see Halt).                         *)
(***************************************************************************)
EXTENDS Naturals, Sequences

CONSTANTS
  EnvelopeIds,     \* identities of ActionEnvelopes, unique per submission
  Owners,          \* QueueOwner: one per run that may own the normal lane
  Continuations,   \* ContinuationEnvelope payloads of multi-step actions
  None             \* Option::None

Lanes       == {"normal", "interrupt"}
Outcomes    == {"succeeded", "cancelled"}
\* ActionOrigin: of a typed run, of a script, or an interrupt and its policy string.
Policies    == {"run", "script", "client", "client_return_to_origin", "client_return_to_origin_ready"}
Envelopes   == [id : EnvelopeIds, policy : Policies]
QueueClaims == [owner : Owners, generation : Nat]
Running     == [env : Envelopes, cont : Continuations \cup {None}, paused : BOOLEAN]
Completed   == [env : Envelopes, outcome : Outcomes]

ASSUME NoneAssumption ==
  /\ None \notin Envelopes
  /\ None \notin QueueClaims
  /\ None \notin Running
  /\ None \notin Continuations

SchedulerStates ==
  [generation : Nat, claim : QueueClaims \cup {None},
   pending : Seq(Envelopes), running : Running \cup {None},
   interruptPending : Seq(Envelopes), interrupt : Running \cup {None},
   completed : Seq(Completed)]

NewScheduler ==
  [generation |-> 0, claim |-> None,
   pending |-> <<>>, running |-> None,
   interruptPending |-> <<>>, interrupt |-> None,
   completed |-> <<>>]

-----------------------------------------------------------------------------
(* Reading the state. *)

InterruptBusy(s) == s.interrupt # None \/ s.interruptPending # <<>>

\* authorize: the caller presents exactly the claim that is current.
Authorized(s, c) == c # None /\ s.claim = c

LaneRunning(s, lane) == IF lane = "normal" THEN s.running ELSE s.interrupt

\* The running normal action is flagged paused exactly while there is interrupt
\* work.  Every operation keeps it so (append_interrupts, start_next, complete,
\* cancel and halt each maintain a part of it).
PauseFlagCorrect(s) == s.running # None => (s.running.paused <=> InterruptBusy(s))

-----------------------------------------------------------------------------
(* Building blocks. *)

Started(e) == [env |-> e, cont |-> None, paused |-> FALSE]

SetPaused(r, b) == IF r = None THEN None ELSE [r EXCEPT !.paused = b]

\* The completion records that clearing the slot r leaves behind.
CancelRecord(r) == IF r = None THEN <<>> ELSE <<[env |-> r.env, outcome |-> "cancelled"]>>

\* invalidate: whoever held the lane holds a stale claim from here on.
Invalidate(s) == [s EXCEPT !.generation = @ + 1, !.claim = None]

-----------------------------------------------------------------------------
(* The normal lane's lease. *)

CanClaim(s) == s.claim = None

Claim(s, owner) ==
  [s EXCEPT !.generation = @ + 1,
            !.claim = [owner |-> owner, generation |-> s.generation + 1]]

CanReclaim(s, expected) == s.generation = expected /\ CanClaim(s)

Release(s) == Invalidate(s)

\* Ends the owner's run: its queue is dropped, its running action is recorded
\* as cancelled, and the interrupt lane is left alone.
Cancel(s) ==
  Invalidate([s EXCEPT !.pending = <<>>, !.running = None,
                       !.completed = @ \o CancelRecord(s.running)])

\* Mutant: start over from a fresh scheduler, as the engine's set_script does.
HaltResetsGeneration(s) == [NewScheduler EXCEPT !.completed = s.completed]

\* Clears both lanes.  The latch `halted` is reset, never set.
Halt(s) ==
  Invalidate([s EXCEPT !.pending = <<>>, !.interruptPending = <<>>,
                       !.running = None, !.interrupt = None,
                       !.completed = @ \o CancelRecord(s.running) \o CancelRecord(s.interrupt)])

-----------------------------------------------------------------------------
(* Queues. *)

AppendBatch(s, batch) == [s EXCEPT !.pending = @ \o batch]

CanAppendInterrupts(s) == ~InterruptBusy(s)

\* Mutant: preemption is left to start_next.
AppendInterruptsWithoutPause(s, batch) == [s EXCEPT !.interruptPending = @ \o batch]

AppendInterrupts(s, batch) ==
  [s EXCEPT !.interruptPending = @ \o batch, !.running = SetPaused(@, TRUE)]

ReplaceInterruptPolicy(s, old, new) ==
  [s EXCEPT !.interruptPending =
     [i \in DOMAIN s.interruptPending |->
        IF s.interruptPending[i].policy = old
        THEN [s.interruptPending[i] EXCEPT !.policy = new]
        ELSE s.interruptPending[i]]]

-----------------------------------------------------------------------------
(* Running actions. *)

CanStartInterrupt(s) == s.interrupt = None /\ s.interruptPending # <<>>

StartInterrupt(s) ==
  [s EXCEPT !.interrupt = Started(Head(s.interruptPending)),
            !.interruptPending = Tail(@),
            !.running = SetPaused(@, TRUE)]

CanStartNormal(s) == ~InterruptBusy(s) /\ s.running = None /\ s.pending # <<>>

\* Mutant: the queue's front is read, not popped.
StartNormalWithoutPop(s) == [s EXCEPT !.running = Started(Head(s.pending))]

StartNormal(s) ==
  [s EXCEPT !.running = Started(Head(s.pending)), !.pending = Tail(@)]

\* start_next fails with AlreadyRunning in these states.
StartNextFails(s) ==
  \/ s.interrupt # None
  \/ s.interruptPending = <<>> /\ s.running # None

\* Mutant: the normal lane first.
StartNextNormalFirst(s) ==
  IF s.running = None /\ s.pending # <<>> THEN StartNormal(s)
  ELSE IF CanStartInterrupt(s) THEN StartInterrupt(s)
  ELSE s

\* start_next: the interrupt lane first; a drained scheduler is unchanged.
StartNext(s) ==
  IF CanStartInterrupt(s) THEN StartInterrupt(s)
  ELSE IF CanStartNormal(s) THEN StartNormal(s)
  ELSE s

\* set_continuation and clear_continuation (k = None); an idle lane is an error.
SetContinuation(s, lane, k) ==
  CASE lane = "normal" /\ s.running # None -> [s EXCEPT !.running.cont = k]
    [] lane = "interrupt" /\ s.interrupt # None -> [s EXCEPT !.interrupt.cont = k]
    [] OTHER -> s

CompleteNormal(s, outcome) ==
  [s EXCEPT !.running = None,
            !.completed = Append(@, [env |-> s.running.env, outcome |-> outcome])]

\* Mutant: every finished interrupt resumes the normal action.
CompleteInterruptAlwaysResumes(s, outcome) ==
  [s EXCEPT !.interrupt = None,
            !.completed = Append(@, [env |-> s.interrupt.env, outcome |-> outcome]),
            !.running = SetPaused(@, FALSE)]

\* The last interrupt of the batch resumes the paused normal action.
CompleteInterrupt(s, outcome) ==
  [s EXCEPT !.interrupt = None,
            !.completed = Append(@, [env |-> s.interrupt.env, outcome |-> outcome]),
            !.running = IF s.interruptPending = <<>> THEN SetPaused(@, FALSE) ELSE @]

\* complete: an idle lane is an error that changes nothing.
Complete(s, lane, outcome) ==
  CASE lane = "normal" /\ s.running # None -> CompleteNormal(s, outcome)
    [] lane = "interrupt" /\ s.interrupt # None -> CompleteInterrupt(s, outcome)
    [] OTHER -> s
=============================================================================
