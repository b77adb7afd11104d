--------------------------- MODULE ManagedAccount ---------------------------
(***************************************************************************)
(* The life of one account's connection (spacemolt-lib, Account and        *)
(* SpacemoltClient): dialing, the welcome, logging in, closes, and the     *)
(* task that connects it again.                                            *)
(*                                                                         *)
(* Two owners run that task.  An account with a reconnect policy runs its  *)
(* own loop; the accounts of a client have none, and the client listens    *)
(* for their disconnects.  Which of the two it is, is fixed at the start.  *)
(*                                                                         *)
(* The callbacks of a socket are not tied to it: frames and closes of a    *)
(* socket that an earlier attempt left open act on the account all the     *)
(* same.  The server is external.                                          *)
(***************************************************************************)
EXTENDS Naturals, FiniteSets

CONSTANTS
  Nil,
  MaxTries,   \* attempts of a task after its first
  MaxSockets,     \* bound: sockets opened
  MaxCloses     \* bound: sockets that close, calls of remove

ASSUME AccountAssumption ==
  MaxTries \in Nat /\ MaxSockets \in Nat \ {0} /\ MaxCloses \in Nat
  /\ Nil \notin Nat /\ Nil \notin {"ok", "disconnected"}

VARIABLES
  ownLoop,        \* opts.reconnect is set: the account looks after itself
  conn,           \* how far the server got with each socket
  reported,       \* sockets whose close was reported
  closes,
  current, welcome, waiter, authenticated, pendingAuth,   \* AccountInner
  task,           \* the future that connects the account
  notice,           \* what that future was told since it began to wait
  registered,     \* the client's map of accounts has this one
  wired,          \* the client listens for its disconnects
  reconnecting,   \* the account's flag, or its entry in the client's set
  tails,          \* results of tasks that left the set and did not yet act on them
  report,         \* the last event listeners got
  missed          \* a close was reported to a task that had nothing left to await

inside   == <<current, welcome, waiter, authenticated, pendingAuth>>
remote  == <<conn, reported, closes>>
manager == <<registered, wired, reconnecting, tails, report, missed>>
accountVars == <<ownLoop, remote, inside, task, notice, manager>>

Sockets == 1..MaxSockets
NoTask == [kind |-> "none", phase |-> "idle", left |-> 0]
Task(kind, phase, left) == [kind |-> kind, phase |-> phase, left |-> left]
Opened == {k \in Sockets : conn[k] # "unopened"}
Newest == Cardinality(Opened)

\* connect() begins with the account in the client's map; an account with its own
\* loop is one that has logged in.
AccountInit ==
  /\ ownLoop \in BOOLEAN
  /\ conn = [k \in Sockets |-> IF ownLoop /\ k = 1 THEN "loggedIn" ELSE "unopened"]
  /\ reported = {} /\ closes = 0
  /\ current = (IF ownLoop THEN 1 ELSE Nil) /\ welcome = ownLoop /\ waiter = FALSE
  /\ authenticated = ownLoop /\ pendingAuth = Nil
  /\ task = IF ownLoop THEN NoTask ELSE Task("first", "delayed", MaxTries)
  /\ notice = Nil
  /\ registered = TRUE /\ wired = FALSE /\ reconnecting = FALSE
  /\ tails = {} /\ report = Nil /\ missed = FALSE

Reach(phase) == task' = [task EXCEPT !.phase = phase] /\ notice' = Nil

-----------------------------------------------------------------------------
(* One attempt: connect, wait_for_welcome, authenticate, restore. *)

\* The reading half runs before connect() stores the handle.
Dial ==
  /\ task.phase = "delayed" /\ Newest < MaxSockets
  /\ conn' = [conn EXCEPT ![Newest + 1] = "silent"]
  /\ Reach("dialed")
  /\ UNCHANGED <<ownLoop, reported, closes, inside, manager>>

StoreSocket ==
  /\ task.phase = "dialed" /\ Reach("connected")
  /\ welcome' = FALSE /\ current' = Newest
  /\ UNCHANGED <<ownLoop, remote, waiter, authenticated, pendingAuth, manager>>

AwaitWelcome ==
  /\ task.phase = "connected"
  /\ IF welcome THEN Reach("welcomed") /\ UNCHANGED waiter
     ELSE Reach("greeting") /\ waiter' = TRUE
  /\ UNCHANGED <<ownLoop, remote, current, welcome, authenticated, pendingAuth, manager>>

\* start_auth, when nothing stands in its way.
StartAuth ==
  /\ task.phase = "welcomed" /\ pendingAuth = Nil /\ ~authenticated /\ current # Nil
  /\ pendingAuth' = current /\ Reach("authing")
  /\ conn' = IF conn[current] = "ended" THEN conn ELSE [conn EXCEPT ![current] = "asked"]
  /\ UNCHANGED <<ownLoop, reported, closes, current, welcome, waiter, authenticated, manager>>

Proceed ==
  /\ notice = "ok"
  /\ Reach(IF task.phase = "greeting" THEN "welcomed" ELSE "restoring")
  /\ UNCHANGED <<ownLoop, remote, inside, manager>>

\* Mutant: the state query is not waited for.
RestoreUnasked ==
  /\ task.phase = "restoring"
  /\ Reach("finishing")
  /\ UNCHANGED <<ownLoop, remote, inside, manager>>

\* The state query, and the subscriptions there were.
Restore ==
  /\ task.phase = "restoring" /\ notice = Nil
  /\ current # Nil /\ conn[current] = "loggedIn"
  /\ Reach("finishing")
  /\ UNCHANGED <<ownLoop, remote, inside, manager>>

\* Refused, told so, or out of time.
AttemptIsOver ==
  \/ task.phase \in {"delayed", "restoring"}
  \/ task.phase \in {"greeting", "authing"} /\ notice # "ok"
  \/ task.phase = "welcomed" /\ (pendingAuth # Nil \/ authenticated \/ current = Nil)

\* A timeout takes back what the attempt waited on.
TakeBack ==
  /\ waiter' = (waiter /\ task.phase # "greeting")
  /\ pendingAuth' = IF task.phase = "authing" THEN Nil ELSE pendingAuth
  /\ UNCHANGED <<conn, current, welcome, authenticated>>

\* The client's first connect makes a new account for each attempt: the sockets
\* of the one it throws away are nobody's.
FreshAccount ==
  /\ conn' = [k \in Sockets |-> IF k \in Opened THEN "ended" ELSE conn[k]]
  /\ current' = Nil /\ welcome' = FALSE /\ waiter' = FALSE
  /\ authenticated' = FALSE /\ pendingAuth' = Nil

\* Mutant: the attempts are not counted.
RetryForever ==
  /\ AttemptIsOver
  /\ task' = [task EXCEPT !.phase = "delayed"] /\ notice' = Nil
  /\ IF task.kind = "first" THEN FreshAccount ELSE TakeBack
  /\ UNCHANGED <<ownLoop, reported, closes, manager>>

Retry ==
  /\ AttemptIsOver /\ task.left > 0
  /\ task' = [task EXCEPT !.phase = "delayed", !.left = @ - 1] /\ notice' = Nil
  /\ IF task.kind = "first" THEN FreshAccount ELSE TakeBack
  /\ UNCHANGED <<ownLoop, reported, closes, manager>>

GiveUp ==
  /\ AttemptIsOver /\ task.left = 0 /\ TakeBack
  /\ task' = NoTask /\ notice' = Nil /\ reconnecting' = FALSE
  /\ CASE task.kind = "first" -> registered' = FALSE /\ UNCHANGED <<tails, report>>
       [] task.kind = "again" -> tails' = tails \cup {"failed"} /\ UNCHANGED <<registered, report>>
       [] task.kind = "loop"  -> report' = "disconnected" /\ UNCHANGED <<registered, tails>>
  /\ UNCHANGED <<ownLoop, reported, closes, wired, missed>>

Finish ==
  /\ task.phase = "finishing"
  /\ task' = NoTask /\ notice' = Nil /\ reconnecting' = FALSE
  /\ wired' = (wired \/ task.kind = "first")
  /\ CASE task.kind = "first" -> report' = "connected" /\ UNCHANGED tails
       [] task.kind = "again" -> tails' = tails \cup {"ok"} /\ UNCHANGED report
       [] task.kind = "loop"  -> report' = "reconnected" /\ UNCHANGED tails
  /\ UNCHANGED <<ownLoop, remote, inside, registered, missed>>

\* The client's task has left the set of reconnecting accounts before it acts on
\* its result.
ActOnResult ==
  \E result \in tails :
    /\ tails' = tails \ {result}
    /\ registered' = (registered /\ result = "ok")
    /\ report' = IF result = "ok" THEN "reconnected" ELSE "disconnected"
    /\ UNCHANGED <<ownLoop, remote, inside, task, notice, wired, reconnecting, missed>>

-----------------------------------------------------------------------------
(* Closes. *)

\* handle_close, up to its listeners.
Reset ==
  /\ current' = Nil /\ waiter' = FALSE /\ authenticated' = FALSE /\ pendingAuth' = Nil
  /\ UNCHANGED welcome

WaitFails ==
  \/ task.phase = "greeting" /\ waiter
  \/ task.phase = "authing" /\ pendingAuth # Nil
  \/ task.phase = "restoring"

TaskIsTold ==
  /\ notice' = IF WaitFails THEN "failed" ELSE notice
  /\ UNCHANGED task

StartTask(kind) ==
  /\ reconnecting' = TRUE
  /\ task' = Task(kind, "delayed", MaxTries) /\ notice' = Nil

\* The account's own policy.
LoopReacts(terminal) ==
  IF ~terminal /\ ~reconnecting
  THEN StartTask("loop") /\ UNCHANGED <<registered, report, missed>>
  ELSE /\ report' = "disconnected" /\ TaskIsTold
       /\ missed' = (missed \/ task.phase = "finishing")
       /\ UNCHANGED <<registered, reconnecting>>

\* The handler of wire_account_disconnect.
ClientReacts(terminal) ==
  IF wired /\ registered /\ terminal
  THEN /\ registered' = FALSE /\ report' = "disconnected" /\ TaskIsTold
       /\ UNCHANGED <<reconnecting, missed>>
  ELSE IF wired /\ registered /\ ~reconnecting
  THEN StartTask("again") /\ UNCHANGED <<registered, report, missed>>
  ELSE /\ missed' = (missed \/ task.phase = "finishing") /\ TaskIsTold
       /\ UNCHANGED <<registered, reconnecting, report>>

\* A socket's close is reported once; when its write half failed first, its read
\* half may go on.
Closes(k) ==
  /\ closes < MaxCloses /\ closes' = closes + 1
  /\ conn[k] \notin {"unopened", "ended"} /\ k \notin reported
  /\ reported' = reported \cup {k}
  /\ \E last \in {conn[k], "ended"} : conn' = [conn EXCEPT ![k] = last]
  /\ Reset
  /\ \E terminal \in BOOLEAN : IF ownLoop THEN LoopReacts(terminal) ELSE ClientReacts(terminal)
  /\ UNCHANGED <<ownLoop, wired, tails>>

\* SpacemoltClient::remove; the close it asks for comes later.
Remove ==
  /\ ~ownLoop /\ registered /\ closes < MaxCloses
  /\ closes' = closes + 1 /\ registered' = FALSE
  /\ UNCHANGED <<ownLoop, conn, reported, inside, task, notice, wired, reconnecting, tails, report, missed>>

-----------------------------------------------------------------------------
(* Frames, routed to the account whatever its socket is now. *)

Greets(k) ==
  /\ conn[k] = "silent" /\ conn' = [conn EXCEPT ![k] = "greeted"]
  /\ welcome' = TRUE /\ waiter' = FALSE
  /\ notice' = IF waiter THEN "ok" ELSE notice
  /\ UNCHANGED <<current, authenticated, pendingAuth>>

\* logged_in settles the login that is pending, whoever asked for it.
LogsIn(k) ==
  /\ conn[k] = "asked" /\ conn' = [conn EXCEPT ![k] = "loggedIn"]
  /\ authenticated' = TRUE /\ pendingAuth' = Nil
  /\ notice' = IF pendingAuth # Nil THEN "ok" ELSE notice
  /\ UNCHANGED <<current, welcome, waiter>>

\* An error settles it if it names the request, or none.
RefusesLogin(k) ==
  /\ conn[k] = "asked" /\ conn' = [conn EXCEPT ![k] = "greeted"]
  /\ \E named \in BOOLEAN :
       IF pendingAuth # Nil /\ (named => pendingAuth = k)
       THEN pendingAuth' = Nil /\ notice' = "failed"
       ELSE UNCHANGED <<pendingAuth, notice>>
  /\ UNCHANGED <<current, welcome, waiter, authenticated>>

Routes ==
  /\ \E k \in Sockets : Greets(k) \/ LogsIn(k) \/ RefusesLogin(k)
  /\ UNCHANGED <<ownLoop, reported, closes, task, manager>>

-----------------------------------------------------------------------------
TaskStep ==
  \/ Dial \/ StoreSocket \/ AwaitWelcome \/ StartAuth \/ Proceed \/ Restore
  \/ Retry \/ GiveUp \/ Finish

AccountNext ==
  \/ TaskStep \/ ActOnResult
  \/ (\E k \in Sockets : Closes(k)) \/ Remove
  \/ Routes

\* The tasks are polled, their sleeps and timeouts end.
AccountFairness == WF_accountVars(TaskStep) /\ WF_accountVars(ActOnResult)

AccountSpec == AccountInit /\ [][AccountNext]_accountVars /\ AccountFairness

-----------------------------------------------------------------------------
(* Properties. *)

GivenUp == ~registered \/ report = "disconnected"

\* An account nobody is connecting and that was not reported lost is logged in on
\* the socket it sends to - whatever frames and closes of older sockets did to
\* it - unless a close came when its task had nothing left to await.
HealthyOrHandled ==
  task = NoTask /\ tails = {} /\ ~GivenUp /\ ~missed =>
    current # Nil /\ conn[current] = "loggedIn" /\ authenticated

\* Every connect and reconnect comes to an end and its result is acted on.
TasksEnd == <>[](task = NoTask /\ tails = {})
=============================================================================
