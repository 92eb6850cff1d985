------------------------------ MODULE MCServer ------------------------------
(* Instances of Server for TLC. *)
EXTENDS Server, TLC

CONSTANTS exec, remove

\* A command and the Remove of its environment.
MCCalls == {exec, remove}
MCCommands == {exec}
MCReleases == [c \in MCCalls |-> IF c = remove THEN MCCommands ELSE {}]
=============================================================================
