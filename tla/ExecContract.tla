---------------------------- MODULE ExecContract ----------------------------
(***************************************************************************)
(* What an Exec promises the runner, whatever threads and sockets do: it   *)
(* shows what the command writes to each stream, frame by frame in the     *)
(* order of writing, and tells the exit code, if it does, once the command *)
(* is over and everything has been shown but what a broken stream lost.    *)
(* An exit code nobody kept is told as success.                            *)
(***************************************************************************)
EXTENDS Naturals

CONSTANTS Streams, Codes, Nothing

VARIABLES
  command, \* "waiting" to be started, "running" or "over"
  code,    \* its exit code, if it ended by itself
  bare,    \* the daemon's record of the command has no exit code
  written, \* how many frames it wrote to each stream
  shown,   \* the numbers of the frames the runner has seen of each stream
  broken,  \* the streams that broke
  call,    \* "open", "exit" or "failed"
  told     \* the exit code the runner was told

vars == <<command, code, bare, written, shown, broken, call, told>>

Init ==
  /\ command = "waiting" /\ code = Nothing /\ bare = FALSE
  /\ written = [s \in Streams |-> 0] /\ shown = [s \in Streams |-> {}]
  /\ broken = {} /\ call = "open" /\ told = Nothing

Begin ==
  /\ command = "waiting" /\ command' = "running"
  /\ UNCHANGED <<code, bare, written, shown, broken, call, told>>

Write ==
  /\ command = "running"
  /\ \E s \in Streams : written' = [written EXCEPT ![s] = @ + 1]
  /\ UNCHANGED <<command, code, bare, shown, broken, call, told>>

\* A command that ends by itself has a code; one that is stopped has none, and
\* may be stopped before it began.
End ==
  /\ command # "over" /\ command' = "over"
  /\ code' \in IF command = "running" THEN Codes \cup {Nothing} ELSE {Nothing}
  /\ UNCHANGED <<bare, written, shown, broken, call, told>>

\* The record is written, without the code, before anybody is told.
Omit ==
  /\ command = "over" /\ ~bare /\ call # "exit"
  /\ bare' = TRUE
  /\ UNCHANGED <<command, code, written, shown, broken, call, told>>

Break ==
  /\ \E s \in Streams : broken' = broken \cup {s}
  /\ UNCHANGED <<command, code, bare, written, shown, call, told>>

\* The next frame of a stream.
Show ==
  /\ call = "open"
  /\ \E s \in Streams : \E n \in 1..written[s] :
       /\ shown[s] = 1..(n - 1)
       /\ shown' = [shown EXCEPT ![s] = 1..n]
  /\ UNCHANGED <<command, code, bare, written, broken, call, told>>

Tell ==
  /\ call = "open" /\ command = "over" /\ code # Nothing
  /\ \A s \in Streams \ broken : shown[s] = 1..written[s]
  /\ call' = "exit" /\ told' = IF bare THEN 0 ELSE code
  /\ UNCHANGED <<command, code, bare, written, shown, broken>>

Fail ==
  /\ call = "open" /\ call' = "failed"
  /\ UNCHANGED <<command, code, bare, written, shown, broken, told>>

Next == Begin \/ Write \/ End \/ Omit \/ Break \/ Show \/ Tell \/ Fail

Spec == Init /\ [][Next]_vars

\* While the call is open the command begins, and once it is over the call ends.
FairSpec ==
  /\ Spec
  /\ WF_vars(call = "open" /\ (Begin \/ (command = "waiting" /\ Fail)))
  /\ WF_vars(command = "over" /\ (Tell \/ Fail))
=============================================================================
