---------------------------- MODULE MCReadiness ----------------------------
(* Instances of Readiness for TLC. *)
EXTENDS Readiness, TLC

\* The agent and the daemon are waited for less long than the system.
MCLimit == [agent |-> 2, system |-> 3, daemon |-> 1]
MCPause == [agent |-> 1, system |-> 2, daemon |-> 1]
=============================================================================
