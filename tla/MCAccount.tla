----------------------------- MODULE MCAccount -----------------------------
(* A small instance of AccountCalls and of ManagedAccount for TLC.  The      *)
(* calls see of the session only which socket is current and closes, which  *)
(* AccountCalls leaves open: each behaviour runs one of the two.            *)
EXTENDS AccountCalls, ManagedAccount

CONSTANTS m1, m2, q1
VARIABLE part

MCMutators == {m1, m2}
MCQueriers == {q1}
MCRequests == [by : Mutators \cup Queriers, attempt : 0..(MaxRetries + 1)]

\* The idle part has no task to run: its fairness asks for nothing.
BothInit ==
  /\ Init /\ AccountInit
  /\ part \in {"calls", "session"}
  /\ part = "calls" => ownLoop
BothNext ==
  /\ UNCHANGED part
  /\ \/ part = "calls" /\ Next /\ UNCHANGED accountVars
     \/ part = "session" /\ AccountNext /\ UNCHANGED vars
BothSpec == BothInit /\ [][BothNext]_<<vars, accountVars, part>> /\ Fairness /\ AccountFairness

\* Every call returns unless the slot it waits for is stranded, and every connect and
\* reconnect comes to an end, however the server and the sockets behave.
AccountWorkEnds == CallsEnd /\ TasksEnd
=============================================================================
