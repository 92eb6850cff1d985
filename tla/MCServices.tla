----------------------------- MODULE MCServices -----------------------------
(* Instances of Services for TLC. *)
EXTENDS Services, TLC

\* Two names that collapse to one alias, one that does not, and the name of
\* the job container.
MCNames == {"db", "DB", "cache", "job"}
MCAlias == [n \in MCNames |-> IF n = "DB" THEN "db" ELSE n]
=============================================================================
