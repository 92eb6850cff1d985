--------------------------- MODULE MCEnvironments ---------------------------
(* Instances of Environments for TLC. *)
EXTENDS Environments, TLC

\* Networks are interchangeable, and so are the threads; used only in runs
\* without temporal properties.
Symmetry == Permutations(Networks) \cup Permutations(Threads) \cup Permutations(Names)
=============================================================================
