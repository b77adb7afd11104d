------------------------- MODULE ExclusiveExecution -------------------------
(***************************************************************************)
(* What the scheduler promises whoever executes its actions, with neither  *)
(* lanes nor queues: work is accepted, waits, is active, may be suspended  *)
(* by more urgent work, and is finished exactly once.  At no moment are    *)
(* two actions active, and suspended work is either resumed or finished.   *)
(***************************************************************************)
CONSTANTS Work, Nothing

VARIABLES
  waiting,     \* accepted work that has not started
  active,      \* the one action being executed, or Nothing
  suspended,   \* the one action that was preempted, or Nothing
  finished     \* work that has an outcome

vars == <<waiting, active, suspended, finished>>

Init ==
  /\ waiting = {} /\ active = Nothing /\ suspended = Nothing /\ finished = {}

Known == waiting \cup {active, suspended} \cup finished

\* Urgent work is accepted by suspending what is active.
Accept(S) ==
  /\ S \subseteq Work /\ S \cap Known = {}
  /\ waiting' = waiting \cup S
  /\ \/ UNCHANGED <<active, suspended>>
     \/ /\ suspended = Nothing
        /\ active' = Nothing /\ suspended' = active
  /\ UNCHANGED finished

Start(w) ==
  /\ active = Nothing /\ w \in waiting
  /\ active' = w /\ waiting' = waiting \ {w}
  /\ UNCHANGED <<suspended, finished>>

\* The active action finishes; the suspended one may take its place.
FinishActive ==
  /\ active # Nothing
  /\ finished' = finished \cup {active}
  /\ \/ active' = Nothing /\ UNCHANGED suspended
     \/ active' = suspended /\ suspended' = Nothing
  /\ UNCHANGED waiting

\* A suspended action's last operation was under way when it was preempted.
FinishSuspended ==
  /\ suspended # Nothing
  /\ finished' = finished \cup {suspended} /\ suspended' = Nothing
  /\ UNCHANGED <<waiting, active>>

\* Stopping drops waiting work and finishes, as cancelled, what had started.
Stop(D, F) ==
  /\ D \subseteq waiting /\ F \subseteq {active, suspended} \ {Nothing}
  /\ waiting' = waiting \ D
  /\ finished' = finished \cup F
  /\ active' = IF active \in F THEN Nothing ELSE active
  /\ suspended' = IF suspended \in F THEN Nothing ELSE suspended

Next ==
  \/ \E S \in SUBSET Work : Accept(S)
  \/ \E w \in Work : Start(w)
  \/ FinishActive
  \/ FinishSuspended
  \/ \E D \in SUBSET waiting : \E F \in SUBSET {active, suspended} : Stop(D, F)

Spec == Init /\ [][Next]_vars
=============================================================================
