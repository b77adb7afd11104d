---------------------------- MODULE AccountCalls ----------------------------
(***************************************************************************)
(* The calls in flight on one SpaceMolt account (spacemolt-lib, Account).  *)
(*                                                                         *)
(* Queries go out at once; mutations take turns on the account's single    *)
(* slot, which is handed from one future to the next.  Every future may    *)
(* be dropped where it waits, time out, or be told to retry; sockets close *)
(* and are replaced beside them.  A mutation may leave a part of the       *)
(* cached state out of its delta, and is followed by a refresh of it.      *)
(*                                                                         *)
(* The server is not in this repository: it answers on the socket a        *)
(* request came by, refuses requests, and executes mutations at once or    *)
(* after an acknowledgement.                                               *)
(***************************************************************************)
EXTENDS Naturals, Sequences, FiniteSets, Correlator

CONSTANTS
  Mutators, Queriers,   \* callers; each makes one call of mutate or of query
  MaxRetries,           \* max_rate_limit_retries
  MaxConns,             \* bound: sockets opened
  MaxFaults             \* bound: futures dropped, refusals of the server, sockets that fail

Callers == Mutators \cup Queriers
Refresh == MaxRetries + 1      \* the number of the query that follows a mutation

ASSUME CallsAssumption ==
  /\ Mutators \cap Queriers = {} /\ MaxRetries \in Nat /\ MaxConns \in Nat \ {0} /\ MaxFaults \in Nat
  /\ Requests = [by : Callers, attempt : 0..Refresh]
ASSUME NoneAssumption == None \notin {"ok", "limited", "refused"}

VARIABLES
  socket,      \* number of the current socket, or None
  conns,       \* sockets opened so far
  pending,     \* the correlator
  active,      \* mutation_active
  waiters,     \* mutation_waiters
  phase,       \* where each caller's future is
  attempt,     \* the request it waits for
  outcome,     \* what it returned
  told,        \* what the oneshot that each caller's future waits on holds
  cache,       \* the version of the cached section, and whether it is marked dirty
  server,      \* what the server did with each request
  version,     \* the server's version of the section
  faults       \* how much went wrong

vars == <<socket, conns, pending, active, waiters, phase, attempt, outcome, told, cache,
          server, version, faults>>
world == <<server, version>>

Conns   == 1..MaxConns
Absent  == 0        \* in a frame: the section is not in it
MaxVersion == 1 + Cardinality(Mutators) * (MaxRetries + 1)
Phases  == {"new", "claimed", "queued", "granted", "running", "sleeping", "refreshing",
            "ended", "dropped", "lost"}
Verdicts == {"open", "ok", "limited", "refused", "canceled", "closed"}

Untold == [verdict |-> "open", version |-> Absent]

Init ==
  /\ socket = 1 /\ conns = 1 /\ pending = NothingPending
  /\ active = FALSE /\ waiters = <<>>
  /\ phase = [c \in Callers |-> "new"] /\ attempt = [c \in Callers |-> 0]
  /\ outcome = [c \in Callers |-> None]
  /\ told = [c \in Callers |-> Untold]
  /\ cache = [version |-> 1, dirty |-> FALSE]
  /\ server = [r \in Requests |-> [state |-> "unsent", conn |-> None, version |-> Absent]]
  /\ version = 1 /\ faults = 0

Fault == faults < MaxFaults /\ faults' = faults + 1

Request(c) == [by |-> c, attempt |-> attempt[c]]
KindOf(r) == IF r.by \in Mutators /\ r.attempt # Refresh THEN "mutation" ELSE "query"
Enter(c, p) == phase' = [phase EXCEPT ![c] = p]

\* Whoever sends to a oneshot whose receiver is gone tells nobody anything.
Awaits(c, r) == phase[c] \in {"running", "refreshing"} /\ Request(c) = r
Tell(r, verdict, v) ==
  told' = [c \in Callers |-> IF Awaits(c, r) THEN [verdict |-> verdict, version |-> v] ELSE told[c]]
Forget(c) == told' = [told EXCEPT ![c] = Untold]

-----------------------------------------------------------------------------
(* Sending.  Registration with the correlator and the send are one critical section. *)

\* start_query_once, start_mutation_attempt: without a socket the future is an
\* error already.
Send(r) ==
  IF socket = None
  THEN /\ told' = [told EXCEPT ![r.by] = [verdict |-> "closed", version |-> Absent]]
       /\ UNCHANGED <<pending, server>>
  ELSE /\ pending' = AwaitRequest(pending, r, KindOf(r))
       /\ server' = [server EXCEPT ![r] = [state |-> "received", conn |-> socket, version |-> Absent]]
       /\ Forget(r.by)

\* query: the first attempt goes out when the call is made.
Query(c) ==
  /\ c \in Queriers /\ phase[c] = "new" /\ Enter(c, "running")
  /\ Send(Request(c))
  /\ UNCHANGED <<socket, conns, active, waiters, attempt, outcome, cache, version, faults>>

\* mutate_inner: take the slot, or wait for it.
Mutate(c) ==
  /\ c \in Mutators /\ phase[c] = "new"
  /\ IF active
     THEN Enter(c, "queued") /\ waiters' = Append(waiters, c) /\ UNCHANGED active
     ELSE Enter(c, "claimed") /\ active' = TRUE /\ UNCHANGED waiters
  /\ UNCHANGED <<socket, conns, pending, attempt, outcome, told, cache, world, faults>>

\* The holder sends; a waiter's future does so once it is polled after the hand-off.
FirstAttempt(c) ==
  /\ phase[c] \in {"claimed", "granted"} /\ Enter(c, "running")
  /\ Send(Request(c))
  /\ UNCHANGED <<socket, conns, active, waiters, attempt, outcome, cache, version, faults>>

RetryAttempt(c) ==
  /\ phase[c] = "sleeping" /\ Enter(c, "running")
  /\ attempt' = [attempt EXCEPT ![c] = @ + 1]
  /\ Send([Request(c) EXCEPT !.attempt = @ + 1])
  /\ UNCHANGED <<socket, conns, active, waiters, outcome, cache, version, faults>>

-----------------------------------------------------------------------------
(* Ending.  The permit of a mutation is released when its future goes. *)

HoldsSlot(c) == c \in Mutators /\ phase[c] \in {"claimed", "running", "sleeping", "refreshing"}

Alive(c) == phase[c] = "queued"     \* its receiver exists: the hand-off succeeds

\* Mutant: the slot goes to the first waiter in line, whether it is there or not.
FinishMutationBlind(c, p) ==
  IF ~HoldsSlot(c) THEN Enter(c, p) /\ UNCHANGED <<active, waiters>>
  ELSE IF waiters = <<>> THEN Enter(c, p) /\ active' = FALSE /\ UNCHANGED waiters
  ELSE /\ phase' = [phase EXCEPT ![c] = p,
                                 ![Head(waiters)] = IF @ = "queued" THEN "granted" ELSE @]
       /\ waiters' = Tail(waiters) /\ UNCHANGED active

\* Mutant: the slot is freed, and whoever waits for it is not told.
FinishMutationForgets(c, p) ==
  Enter(c, p) /\ UNCHANGED waiters /\ active' = IF HoldsSlot(c) THEN FALSE ELSE active

\* finish_mutation: waiters whose future is gone are passed over.
FinishMutation(c, p) ==
  IF ~HoldsSlot(c) THEN Enter(c, p) /\ UNCHANGED <<active, waiters>>
  ELSE LET live == {i \in DOMAIN waiters : Alive(waiters[i])}
           next == CHOOSE i \in live : \A j \in live : i <= j
       IN IF live = {}
          THEN Enter(c, p) /\ active' = FALSE /\ waiters' = <<>>
          ELSE /\ phase' = [phase EXCEPT ![c] = p, ![waiters[next]] = "granted"]
               /\ waiters' = SubSeq(waiters, next + 1, Len(waiters))
               /\ UNCHANGED active

Return(c, result) ==
  /\ FinishMutation(c, "ended")
  /\ outcome' = [outcome EXCEPT ![c] = result]

ToldNow(c) == told[c].verdict

\* Mutant: any refusal is retried.
BacksOffAlways(c) ==
  /\ phase[c] = "running" /\ ToldNow(c) \in {"limited", "closed"} /\ attempt[c] < MaxRetries
  /\ Enter(c, "sleeping")
  /\ UNCHANGED <<socket, conns, pending, active, waiters, attempt, outcome, told, cache, world, faults>>

BacksOff(c) ==
  /\ phase[c] = "running" /\ ToldNow(c) = "limited" /\ attempt[c] < MaxRetries
  /\ Enter(c, "sleeping")
  /\ UNCHANGED <<socket, conns, pending, active, waiters, attempt, outcome, told, cache, world, faults>>

\* An answer that is final for its caller.  A query that refreshes a section
\* puts it into the cache when its future is polled.
Answered(c) ==
  /\ phase[c] = "running" /\ ToldNow(c) # "open"
  /\ ToldNow(c) = "limited" => attempt[c] = MaxRetries
  /\ Return(c, ToldNow(c))
  /\ cache' = IF c \in Queriers /\ ToldNow(c) = "ok"
              THEN [version |-> told[c].version, dirty |-> FALSE] ELSE cache
  /\ Forget(c) /\ UNCHANGED <<socket, conns, pending, attempt, world, faults>>

\* A mutation after which sections are refreshed (auto-dock, trades, storage).
BeginsRefresh(c) ==
  /\ phase[c] = "running" /\ c \in Mutators /\ ToldNow(c) = "ok" /\ Enter(c, "refreshing")
  /\ attempt' = [attempt EXCEPT ![c] = Refresh]
  /\ Send([by |-> c, attempt |-> Refresh])
  /\ UNCHANGED <<socket, conns, active, waiters, outcome, cache, version, faults>>

\* Mutant: a refresh that failed leaves no trace.
EndsRefreshSilently(c) ==
  /\ phase[c] = "refreshing" /\ ToldNow(c) # "open"
  /\ Return(c, "ok")
  /\ cache' = IF ToldNow(c) = "ok"
              THEN [version |-> told[c].version, dirty |-> FALSE] ELSE cache
  /\ Forget(c) /\ UNCHANGED <<socket, conns, pending, attempt, world, faults>>

\* "mutation remains successful": a section that could not be refreshed is marked.
EndsRefresh(c) ==
  /\ phase[c] = "refreshing" /\ ToldNow(c) # "open"
  /\ Return(c, "ok")
  /\ cache' = IF ToldNow(c) = "ok"
              THEN [version |-> told[c].version, dirty |-> FALSE]
              ELSE [cache EXCEPT !.dirty = TRUE]
  /\ Forget(c) /\ UNCHANGED <<socket, conns, pending, attempt, world, faults>>

\* The timer of the attempt.  Before the acknowledgement of a mutation it races
\* with an answer that is there already (an unbiased select).
TimesOut(c) ==
  /\ phase[c] \in {"running", "refreshing"}
  /\ \/ ToldNow(c) = "open"
     \/ KindOf(Request(c)) = "mutation" /\ server[Request(c)].state # "unsent"
  /\ pending' = CancelRequest(pending, Request(c))
  /\ Return(c, IF phase[c] = "refreshing" THEN "ok" ELSE "timeout")
  /\ cache' = IF phase[c] = "refreshing" THEN [cache EXCEPT !.dirty = TRUE] ELSE cache
  /\ Forget(c) /\ UNCHANGED <<socket, conns, attempt, world, faults>>

\* The caller drops its future.  The correlator keeps the entry; the slot is
\* handed on, unless it was handed to this future and not yet taken.
DropCall(c) ==
  /\ Fault
  /\ phase[c] \in {"queued", "granted", "running", "sleeping", "refreshing"}
  /\ FinishMutation(c, IF phase[c] = "granted" THEN "lost" ELSE "dropped")
  /\ Forget(c) /\ UNCHANGED <<socket, conns, pending, attempt, outcome, cache, world>>

-----------------------------------------------------------------------------
(* The socket. *)

\* handle_close.
Close ==
  /\ told' = [c \in Callers |->
                IF Awaits(c, Request(c)) /\ Request(c) \in DOMAIN pending
                THEN [verdict |-> "closed", version |-> Absent] ELSE told[c]]
  /\ pending' = NothingPending /\ socket' = None

Forgotten(k) ==      \* the server has no way left to answer what came by socket k
  [r \in Requests |-> IF server[r].conn = k THEN [server[r] EXCEPT !.conn = None] ELSE server[r]]

\* The read half ends, after the last frame.
ReadEnds(k) ==
  /\ Fault
  /\ socket = k /\ Close
  /\ server' = Forgotten(k)
  /\ UNCHANGED <<conns, active, waiters, phase, attempt, outcome, cache, version>>

\* The write half fails first: the close is reported now, once, and what the read
\* half still gets is routed afterwards.
SocketFails ==
  /\ Fault
  /\ socket # None /\ Close
  /\ UNCHANGED <<conns, active, waiters, phase, attempt, outcome, cache, server, version>>

\* Whoever manages the account opens another socket.
Reconnect ==
  /\ socket = None /\ conns < MaxConns
  /\ conns' = conns + 1 /\ socket' = conns + 1
  /\ UNCHANGED <<pending, active, waiters, phase, attempt, outcome, told, cache, server, version,
                 faults>>

-----------------------------------------------------------------------------
(* The server.  Frames of a socket arrive in the order they are sent, so a step  *)
(* of the server is taken together with the arrival of its frame.               *)

Frame(kind, r, limited, v) == [kind |-> kind, request |-> r, limited |-> limited, version |-> v]

\* route_frame: the delta of an action_result is applied whoever asked for it,
\* then the correlator gets the frame.
Route(f) ==
  /\ pending' = AfterFrame(pending, f)
  /\ IF Verdict(pending, f) = None THEN UNCHANGED told
     ELSE Tell(f.request, Verdict(pending, f), f.version)
  /\ cache' = IF f.kind = "action_result" /\ f.version # Absent
              THEN [cache EXCEPT !.version = f.version] ELSE cache

Reply(r, f) ==
  IF server[r].conn = None THEN UNCHANGED <<pending, told, cache>> ELSE Route(f)

AnswerQuery(r) ==
  /\ server[r].state = "received" /\ KindOf(r) = "query"
  /\ r \in DOMAIN pending      \* nobody could tell otherwise
  /\ server' = [server EXCEPT ![r].state = "executed"]
  /\ Reply(r, Frame("result", r, FALSE, version)) /\ UNCHANGED <<version, faults>>

Refuse(r) ==
  /\ Fault
  /\ server[r].state \in {"received", "accepted"} /\ r \in DOMAIN pending
  /\ server' = [server EXCEPT ![r].state = "refused"]
  /\ IF server[r].state = "received"
     THEN \E limited \in BOOLEAN : Reply(r, Frame("error", r, limited, Absent))
     ELSE Reply(r, Frame("action_error", r, FALSE, Absent))
  /\ UNCHANGED version

Acknowledge(r) ==
  /\ server[r].state = "received" /\ KindOf(r) = "mutation"
  /\ server' = [server EXCEPT ![r].state = "accepted"]
  /\ Reply(r, Frame("ack", r, FALSE, Absent)) /\ UNCHANGED <<version, faults>>

\* At once, with a plain result, or deferred.  The delta may leave the section out.
Execute(r) ==
  /\ server[r].state \in {"received", "accepted"} /\ KindOf(r) = "mutation"
  /\ server' = [server EXCEPT ![r].state = "executed", ![r].version = version + 1]
  /\ version' = version + 1
  /\ IF server[r].state = "received"
     THEN Reply(r, Frame("result", r, FALSE, Absent))
     ELSE \E v \in {Absent, version + 1} : Reply(r, Frame("action_result", r, FALSE, v))
  /\ UNCHANGED faults

ServerStep ==
  /\ \E r \in Requests : AnswerQuery(r) \/ Refuse(r) \/ Acknowledge(r) \/ Execute(r)
  /\ UNCHANGED <<socket, conns, active, waiters, phase, attempt, outcome>>

-----------------------------------------------------------------------------
\* A future that was called and is polled: it sends, is told, or its timer fires.
Polled(c) ==
  \/ FirstAttempt(c) \/ RetryAttempt(c) \/ BacksOff(c) \/ Answered(c)
  \/ BeginsRefresh(c) \/ EndsRefresh(c) \/ TimesOut(c)

Next ==
  \/ \E c \in Callers : Query(c) \/ Mutate(c) \/ Polled(c) \/ DropCall(c)
  \/ \E k \in Conns : ReadEnds(k)
  \/ SocketFails \/ Reconnect
  \/ ServerStep

\* Futures that are not dropped are polled, and their timers fire.  Nothing is
\* asked of the server or of the sockets.
Fairness == \A c \in Callers : WF_vars(Polled(c))

Spec == Init /\ [][Next]_vars /\ Fairness

-----------------------------------------------------------------------------
(* Properties. *)

\* "lost": handed the slot and dropped before it was polled.
HasSlot(c) == HoldsSlot(c) \/ phase[c] \in {"granted", "lost"}

\* MutationPermit, "Owns the account's single mutation slot": whatever is
\* dropped, refused or timed out, the slot is marked taken exactly while one
\* future has it, and never two.
OneMutationAtATime ==
  /\ active <=> \E c \in Mutators : HasSlot(c)
  /\ \A c, d \in Mutators : HasSlot(c) /\ HasSlot(d) => c = d

ExecutedAttempts(c) == {n \in 0..MaxRetries : server[[by |-> c, attempt |-> n]].state = "executed"}

\* Retries never repeat a mutation: one call executes at most once, exactly once
\* if it returned a result, and not at all if it returned the server's refusal.
CallsExecuteOnce ==
  \A c \in Mutators :
    /\ Cardinality(ExecutedAttempts(c)) <= 1
    /\ outcome[c] = "ok" => ExecutedAttempts(c) # {}
    /\ outcome[c] \in {"limited", "refused"} => ExecutedAttempts(c) = {}

\* A mutation that was followed by a refresh returns when the cache shows its
\* effect, or says that it may not.
RefreshShowsMutation ==
  [][\A c \in Mutators : phase[c] = "refreshing" /\ phase'[c] = "ended" =>
       \/ cache'.dirty
       \/ \A n \in ExecutedAttempts(c) :
            cache'.version >= server[[by |-> c, attempt |-> n]].version]_vars

Stranded == \E c \in Mutators : phase[c] = "lost"

\* Every call returns, however the server and the sockets behave, unless the slot
\* it waits for is stranded.
CallsEnd ==
  <>[](\A c \in Callers : phase[c] \in {"new", "ended", "dropped"} \/ Stranded)

\* "Releasing the slot from `Drop` keeps cancellation from stranding every later
\* mutation behind an operation that no longer has a future driving it."
SlotNeverStranded == ~Stranded
=============================================================================
