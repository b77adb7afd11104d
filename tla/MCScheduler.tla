---------------------------- MODULE MCScheduler ----------------------------
(* A small instance of Scheduler for TLC. *)
EXTENDS Scheduler

CONSTANTS o1, o2, k1, MaxEnvelopes

MCOwners == {o1, o2}
MCContinuations == {k1}
MCEnvelopeIds == 1..MaxEnvelopes
=============================================================================
