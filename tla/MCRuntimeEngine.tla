-------------------------- MODULE MCRuntimeEngine --------------------------
(* A small instance of RuntimeEngine for TLC. *)
EXTENDS RuntimeEngine, TLC

CONSTANTS r1, r2, runner, host, MaxEnvelopes

MCEnvelopeIds == 1..MaxEnvelopes
MCRuns == {r1, r2}
MCOneRun == {r1}
MCOwners == Runs \cup {Script}
MCNoHosts == {}
MCHosts == {host}

\* Runs are alike; only safety properties are checked.
MCSymmetry == Permutations(Runs)
=============================================================================
