---------------------------- MODULE MCExecStream ----------------------------
(* Instances of ExecStream for TLC. *)
EXTENDS ExecStream, TLC
=============================================================================
