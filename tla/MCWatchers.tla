----------------------------- MODULE MCWatchers -----------------------------
(* A small instance of Watchers for TLC: two ships and two ports.           *)
EXTENDS Watchers

CONSTANTS pa, pb
MCPorts == {pa, pb}
=============================================================================
