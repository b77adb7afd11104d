--------------------------- MODULE MCSessionRuns ---------------------------
(* A small instance of SessionRuns for TLC. *)
EXTENDS SessionRuns, TLC

CONSTANTS r1, r2, runner1, MaxEnvelopes

MCEnvelopeIds == 1..MaxEnvelopes
MCRuns == {r1, r2}
MCOwners == Runs \cup {Script}
MCOneRun == {r1}
MCNoHosts == {}

\* Runs are alike; used for safety properties only.
MCSymmetry == Permutations(Runs)
=============================================================================
