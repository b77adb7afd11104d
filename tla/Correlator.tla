----------------------------- MODULE Correlator -----------------------------
(***************************************************************************)
(* spacemolt-lib's correlator: which frame settles which request.  A       *)
(* pending map is a function from the requests in flight to what they      *)
(* wait for; the operators return the map after an operation, and what     *)
(* the waiting future is told.                                             *)
(***************************************************************************)
CONSTANTS None, Requests

PendingMaps ==
  UNION {[R -> [kind : {"query", "mutation"}, acked : BOOLEAN]] : R \in SUBSET Requests}

NothingPending == <<>>

\* Frames the server correlates.  "ack" is a result whose payload carries the
\* pending marker, "blank" one that has no payload.
FrameKinds == {"result", "ack", "blank", "action_result", "action_error", "error"}

AwaitRequest(pending, r, kind) ==
  [x \in DOMAIN pending \cup {r} |-> IF x = r THEN [kind |-> kind, acked |-> FALSE] ELSE pending[x]]

CancelRequest(pending, r) == [x \in DOMAIN pending \ {r} |-> pending[x]]

\* The frame leaves its request in flight.
Retains(pending, f) ==
  \/ f.kind = "blank"
  \/ f.kind = "ack" /\ pending[f.request].kind = "mutation"

Handles(pending, f) == f.request \in DOMAIN pending /\ f.kind \in FrameKinds

\* Correlator::handle: the requests in flight afterwards.
AfterFrame(pending, f) ==
  IF ~Handles(pending, f) THEN pending
  ELSE IF ~Retains(pending, f) THEN CancelRequest(pending, f.request)
  ELSE IF f.kind = "ack" THEN [pending EXCEPT ![f.request].acked = TRUE]
  ELSE pending

\* What the frame tells the future that waits for its request.  An action_result
\* for a query drops the sender.
Verdict(pending, f) ==
  IF ~Handles(pending, f) \/ Retains(pending, f) THEN None
  ELSE CASE f.kind = "action_result" /\ pending[f.request].kind = "query" -> "canceled"
         [] f.kind \in {"error", "action_error"} -> IF f.limited THEN "limited" ELSE "refused"
         [] OTHER -> "ok"
=============================================================================
