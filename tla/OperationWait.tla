---------------------------- MODULE OperationWait ----------------------------
(***************************************************************************)
(* How long the plugin waits for an operation of the daemon: the polling   *)
(* loop of operation_wait (client.py) under the deadline that Create works *)
(* out from the runner's and its own time limit (server.py).               *)
(*                                                                         *)
(* Time is counted in ticks and passes only while the loop waits for the   *)
(* daemon or sleeps; what the loop computes takes none.  The operation     *)
(* ends whenever it likes.  A poll is answered with the state the          *)
(* operation had when the daemon wrote the answer, which may be older than *)
(* the answer's arrival.                                                   *)
(***************************************************************************)
EXTENDS Integers

CONSTANTS
  Sec,       \* ticks in a second
  Window,    \* _OP_POLL_WINDOW, in ticks
  Margin,    \* _OP_POLL_READ_MARGIN, in ticks
  Interval,  \* _OP_POLL_MIN_INTERVAL, in ticks
  Latency,   \* how late a sound daemon's answer may be
  Limits,    \* the time limits that may be set, 0 for none
  Faults     \* the kinds of fault this behaviour may show

FaultKinds == {
  "hasty",    \* the daemon answers before the poll's window is over
  "silent",   \* the daemon does not answer in time
  "broken" }  \* the connection breaks, or the answer is an HTTP error

ASSUME OperationWaitAssumption ==
  /\ Sec \in Nat \ {0}
  /\ Window \in Nat /\ Window >= Sec
  /\ Interval \in Nat \ {0}
  /\ Margin \in Nat /\ Latency \in Nat /\ Latency < Margin
  /\ Limits \subseteq Nat
  /\ Faults \subseteq FaultKinds

Can(kind) == kind \in Faults

VARIABLES
  runner,    \* environment_timeout of the request, 0 for none
  cap,       \* max_environment_timeout of the plugin, 0 for none
  left,      \* time left to the deadline, negative once it has passed
  pc,        \* the loop: "start", "check", "poll", "sleep" or "done"
  window,    \* how long the poll asks the daemon to wait
  age,       \* time since the last poll began
  reply,     \* the answer on its way: "none" or a state of the operation
  operation, \* daemon: "running", "success" or "failure"
  result     \* "none" until the loop ends

loopVars == <<runner, cap, window>>
vars == <<runner, cap, left, pc, window, age, reply, operation, result>>

Smaller(a, b) == IF a <= b THEN a ELSE b
Larger(a, b) == IF a <= b THEN b ELSE a

\* _effective_create_timeout: the smaller of the limits that are set.
EffectiveCreateTimeout(r, c) ==
  IF r = 0 THEN c ELSE IF c = 0 THEN r ELSE Smaller(r, c)

Limit == EffectiveCreateTimeout(runner, cap)
Bounded == Limit # 0

\* int(remaining), in ticks.
WholeSeconds(x) == x - (x % Sec)

\* Slips: the window is not cut down to the time left, or not kept at a second.
PollWindow_Fixed(rest) == Window
PollWindow_NoFloor(rest) == Smaller(Window, WholeSeconds(rest))

\* What the last poll asks for is cut down to the time left, in whole
\* seconds, but never to less than one.
PollWindow(rest) == Larger(Sec, Smaller(Window, WholeSeconds(rest)))

\* Slip: the read budget leaves the daemon no time to answer.
ReadBudget_NoMargin == Window

\* The HTTP read budget of a poll.
ReadBudget == Window + Margin

Init ==
  /\ runner \in Limits /\ cap \in Limits
  /\ left = EffectiveCreateTimeout(runner, cap)
  /\ pc = "start" /\ window = Window /\ age = 0
  /\ reply = "none" /\ operation = "running" /\ result = "none"

-----------------------------------------------------------------------------
(* The loop.                                                               *)

Poll ==
  /\ pc \in {"start", "check"}
  /\ window' = IF Bounded THEN PollWindow(left) ELSE Window
  /\ pc' = "poll" /\ age' = 0 /\ reply' = "none"
  /\ UNCHANGED <<runner, cap, left, operation, result>>

End(r) == pc' = "done" /\ result' = r

\* Slips: polls are not padded; a failure told inside the record is taken for
\* a success.
Receive_NoPad ==
  /\ pc = "poll" /\ reply # "none"
  /\ \/ reply # "running" /\ End(reply)
     \/ reply = "running" /\ Bounded /\ left <= 0 /\ End("timeout")
     \/ /\ reply = "running" /\ ~(Bounded /\ left <= 0)
        /\ pc' = "check" /\ UNCHANGED result
  /\ UNCHANGED <<loopVars, left, age, reply, operation>>

Receive_OneEncoding ==
  /\ pc = "poll" /\ reply # "none"
  /\ \/ reply = "success" /\ End("success")
     \/ reply = "failure" /\ result' \in {"success", "failure"} /\ pc' = "done"
     \/ reply = "running" /\ Bounded /\ left <= 0 /\ End("timeout")
     \/ /\ reply = "running" /\ ~(Bounded /\ left <= 0)
        /\ pc' = (IF age < Interval THEN "sleep" ELSE "check") /\ UNCHANGED result
  /\ UNCHANGED <<loopVars, left, age, reply, operation>>

\* The answer arrives: a finished operation ends the loop, a running one ends
\* it once the deadline has passed; otherwise the poll is padded to Interval.
Receive ==
  /\ pc = "poll" /\ reply # "none"
  /\ \/ reply # "running" /\ End(reply)
     \/ reply = "running" /\ Bounded /\ left <= 0 /\ End("timeout")
     \/ /\ reply = "running" /\ ~(Bounded /\ left <= 0)
        /\ pc' = (IF age < Interval THEN "sleep" ELSE "check") /\ UNCHANGED result
  /\ UNCHANGED <<loopVars, left, age, reply, operation>>

Wake ==
  /\ pc = "sleep" /\ age >= Interval
  /\ pc' = "check"
  /\ UNCHANGED <<loopVars, left, age, reply, operation, result>>

\* Slip: a read timeout is taken for an operation that is still running.
ReadTimeout_Retry ==
  /\ pc = "poll" /\ age >= ReadBudget
  /\ \/ Bounded /\ left <= 0 /\ End("timeout")
     \/ ~(Bounded /\ left <= 0) /\ pc' = "check" /\ UNCHANGED result
  /\ UNCHANGED <<loopVars, left, age, reply, operation>>

\* httpx.ReadTimeout.
ReadTimeout ==
  /\ pc = "poll" /\ age >= ReadBudget
  /\ End("read_timeout")
  /\ UNCHANGED <<loopVars, left, age, reply, operation>>

Break ==
  /\ pc = "poll" /\ Can("broken")
  /\ End("broken")
  /\ UNCHANGED <<loopVars, left, age, reply, operation>>

-----------------------------------------------------------------------------
(* The daemon and the clock.                                               *)

Finish ==
  /\ operation = "running"
  /\ operation' \in {"success", "failure"}
  /\ UNCHANGED <<loopVars, left, pc, age, reply, result>>

\* A poll is answered when the operation ends or the window is over.
Reply ==
  /\ pc = "poll" /\ reply = "none"
  /\ operation # "running" \/ age >= window \/ Can("hasty")
  /\ reply' = operation
  /\ UNCHANGED <<loopVars, left, pc, age, operation, result>>

Tick ==
  /\ \/ pc = "poll" /\ age < ReadBudget /\ (age < window + Latency \/ Can("silent"))
     \/ pc = "sleep" /\ age < Interval
  /\ age' = age + 1
  /\ left' = IF Bounded THEN left - 1 ELSE left
  /\ UNCHANGED <<loopVars, pc, reply, operation, result>>

Loop == Poll \/ Receive \/ Wake \/ ReadTimeout
Next == Loop \/ Break \/ Finish \/ Reply \/ Tick

Spec == Init /\ [][Next]_vars

\* The loop runs and time passes.  The daemon need not answer, nor need the
\* operation end.
FairSpec == Spec /\ WF_vars(Loop) /\ WF_vars(Tick)

-----------------------------------------------------------------------------
TypeOK ==
  /\ runner \in Limits /\ cap \in Limits
  /\ left \in Int
  /\ pc \in {"start", "check", "poll", "sleep", "done"}
  /\ window \in Sec..Window
  /\ age \in Nat
  /\ reply \in {"none", "running", "success", "failure"}
  /\ operation \in {"running", "success", "failure"}
  /\ result \in {"none", "success", "failure", "timeout", "read_timeout", "broken"}

\* The daemon was in time with its answer to the last poll.
Punctual == age <= window + Latency

\* By how much a wait may then outlive its deadline: the pad after a poll, the
\* one second a poll asks for at least, the latency.
Slack == Interval + Sec + Latency

\* A wait never times out before the smaller of the limits that are set has
\* passed, and not later than Slack after it unless the daemon was late with
\* the last answer, whatever the answers before it looked like.  However the
\* daemon behaves, no wait with a limit goes on for longer than a pad and a
\* read budget after it, and however it ends.
TimeoutTimely ==
  /\ result = "timeout" =>
       /\ Punctual => \A limit \in {runner, cap} \ {0} : Limit - left < limit + Slack
       /\ \E limit \in {runner, cap} \ {0} : Limit - left >= limit
  /\ \A limit \in {runner, cap} \ {0} : Limit - left < limit + Interval + ReadBudget

\* The fixed read budget covers every poll, whatever window it asked for: the
\* loop gives up on an answer only when it is late.
BudgetSuffices == result = "read_timeout" => ~Punctual

\* The loop's verdict on the operation is the operation's own, though it
\* reads answers that may be out of date.
VerdictTrue == result \in {"success", "failure"} => result = operation

\* Two polls are at least Interval apart, even if the daemon ignores the
\* window it was asked for.
PollsSpaced == [][pc = "check" /\ pc' = "poll" => age >= Interval]_vars

\* A wait with a deadline ends, and so does one whose operation has ended,
\* even when the daemon falls silent.
WaitEnds == (Bounded \/ operation # "running") ~> pc = "done"
=============================================================================
