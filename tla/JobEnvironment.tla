--------------------------- MODULE JobEnvironment ---------------------------
(***************************************************************************)
(* What the plugin promises the runner about a job environment, whatever   *)
(* the steps it takes: it is offered only once the host has everything it  *)
(* needs, it keeps all of that until its end is asked for, and when it is  *)
(* over the host has nothing of it left.                                   *)
(***************************************************************************)
CONSTANT Names

VARIABLES
  stage,   \* [Names -> Stages]
  assets   \* [Names -> Assets]: how much of the environment the host has

vars == <<stage, assets>>

Stages == {"none", "building", "usable", "ending", "over"}
Assets == {"nothing", "some", "everything"}

Init ==
  /\ stage = [n \in Names |-> "none"]
  /\ assets = [n \in Names |-> "nothing"]

Move(n, to) == stage' = [stage EXCEPT ![n] = to]

Begin(n) == stage[n] = "none" /\ Move(n, "building") /\ UNCHANGED assets

\* Only while an environment is being built or taken down do its assets change.
Rework(n) ==
  /\ stage[n] \in {"building", "ending"}
  /\ \E a \in Assets : assets' = [assets EXCEPT ![n] = a]
  /\ UNCHANGED stage

Offer(n) ==
  /\ stage[n] = "building" /\ assets[n] = "everything"
  /\ Move(n, "usable") /\ UNCHANGED assets

End(n) == stage[n] = "usable" /\ Move(n, "ending") /\ UNCHANGED assets

Finish(n) ==
  /\ stage[n] \in {"none", "building", "ending"}
  /\ Move(n, "over")
  /\ assets' = [assets EXCEPT ![n] = "nothing"]

Next == \E n \in Names : Begin(n) \/ Rework(n) \/ Offer(n) \/ End(n) \/ Finish(n)

Spec == Init /\ [][Next]_vars

\* A build is offered or given up, an end is reached.
FairSpec == Spec /\ \A n \in Names : WF_vars(stage[n] # "none" /\ (Offer(n) \/ Finish(n)))

\* What it comes to for whoever looks at one moment: what is offered is there
\* whole, and before its beginning and after its end there is nothing of it.
Sound ==
  \A n \in Names :
    /\ stage[n] = "usable" => assets[n] = "everything"
    /\ stage[n] \in {"none", "over"} => assets[n] = "nothing"
=============================================================================
