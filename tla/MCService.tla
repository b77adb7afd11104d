----------------------------- MODULE MCService -----------------------------
(* What the service keeps around its sessions: the session store, the       *)
(* knowledge file and the record of runs share no state; each behaviour     *)
(* moves one of them.                                                       *)
EXTENDS SessionStore, KnowledgeWriter, ScriptRuns

VARIABLE part

ServiceInit == StoreInit /\ KnowledgeInit /\ RunsInit /\ part \in {"store", "knowledge", "runs"}
ServiceNext ==
  /\ UNCHANGED part
  /\ \/ part = "store" /\ StoreNext /\ UNCHANGED <<knowledgeVars, runVars>>
     \/ part = "knowledge" /\ KnowledgeNext /\ UNCHANGED <<storeVars, runVars>>
     \/ part = "runs" /\ RunsNext /\ UNCHANGED <<storeVars, knowledgeVars>>

ServiceSpec ==
  /\ ServiceInit /\ [][ServiceNext]_<<storeVars, knowledgeVars, runVars, part>>
  /\ KnowledgeFairness /\ RunsFairness
=============================================================================
