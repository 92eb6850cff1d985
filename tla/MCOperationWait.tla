-------------------------- MODULE MCOperationWait --------------------------
(* Instances of OperationWait for TLC. *)
EXTENDS OperationWait, TLC
=============================================================================
