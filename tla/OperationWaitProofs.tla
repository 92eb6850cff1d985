------------------------- MODULE OperationWaitProofs -------------------------
(***************************************************************************)
(* Proofs about OperationWait, for any window, margin, interval and set of *)
(* time limits.  The invariant keeps, through every poll and every pad,    *)
(* the sum left + age: the time that was left when the last poll began.    *)
(***************************************************************************)
EXTENDS OperationWait, TLAPS

USE OperationWaitAssumption

LEMMA PollWindowBounds ==
  ASSUME NEW rest \in Int
  PROVE  /\ PollWindow(rest) \in Sec..Window
         /\ PollWindow(rest) <= Larger(Sec, rest)
<1>1. rest % Sec \in 0..(Sec - 1)
  OBVIOUS
<1>2. WholeSeconds(rest) \in Int /\ WholeSeconds(rest) <= rest
  BY <1>1 DEF WholeSeconds
<1>. QED BY <1>2 DEF PollWindow, Larger, Smaller

LEMMA EffectiveLimit ==
  ASSUME NEW r \in Nat, NEW c \in Nat
  PROVE  /\ EffectiveCreateTimeout(r, c) \in {r, c}
         /\ \A limit \in {r, c} \ {0} : 0 < EffectiveCreateTimeout(r, c)
                                        /\ EffectiveCreateTimeout(r, c) <= limit
  BY DEF EffectiveCreateTimeout, Smaller

\* What the loop knows at each of its steps, whatever the daemon does.
Knows ==
  /\ pc = "check" => age >= Interval
  /\ reply \in {"success", "failure"} => operation = reply
  /\ result \in {"success", "failure"} => operation = result
  /\ pc # "done" => result = "none"

\* How the clock stands at each step.
OnTime ==
  /\ pc = "sleep" => age <= Interval
  /\ pc = "poll" => age <= ReadBudget
  /\ Bounded => 0 - (Interval + ReadBudget) < left
  /\ result = "read_timeout" => age >= ReadBudget
  /\ Bounded =>
       /\ pc \in {"start", "check"} => 0 - Interval < left
       /\ pc = "sleep" => 0 < left + age
       /\ pc = "poll" => 0 - Interval < left + age /\ window <= Larger(Sec, left + age)
  /\ result = "timeout" => Bounded /\ left <= 0 /\ (Punctual => 0 - Slack < left)

\* Every variable keeps its type; above all, no poll asks the daemon to hold
\* it for less than a second or for longer than the window.
THEOREM WaitTypes == Spec => []TypeOK
<1>1. Init => TypeOK
  BY EffectiveLimit DEF Init, TypeOK
<1>2. TypeOK /\ [Next]_vars => TypeOK'
  <2> SUFFICES ASSUME TypeOK, [Next]_vars PROVE TypeOK'
    OBVIOUS
  <2>1. CASE Poll
    BY <2>1, PollWindowBounds DEF Poll, TypeOK
  <2>2. CASE Receive \/ Wake \/ ReadTimeout \/ Break \/ Finish \/ Reply
    BY <2>2 DEF Receive, Wake, ReadTimeout, Break, Finish, Reply, End, TypeOK, loopVars
  <2>3. CASE Tick
    BY <2>3 DEF Tick, TypeOK, loopVars
  <2>4. CASE UNCHANGED vars
    BY <2>4 DEF vars, TypeOK
  <2>. QED BY <2>1, <2>2, <2>3, <2>4 DEF Next, Loop
<1>. QED BY <1>1, <1>2, PTL DEF Spec

LEMMA KnowsHolds == Spec => []Knows
<1>1. Init => Knows
  BY DEF Init, Knows
<1>2. TypeOK /\ Knows /\ [Next]_vars => Knows'
  BY DEF TypeOK, Knows, Next, Loop, Poll, Receive, Wake, ReadTimeout, Break, Finish, Reply,
         Tick, End, vars, loopVars
<1>. QED BY <1>1, <1>2, WaitTypes, PTL DEF Spec

\* Success and failure are what the operation came to, though the answers the
\* loop reads are older than their arrival.
THEOREM VerdictsTrue == Spec => []VerdictTrue
<1>1. Knows => VerdictTrue
  BY DEF Knows, VerdictTrue
<1>. QED BY <1>1, KnowsHolds, PTL

\* Polls keep their distance even from a daemon that ignores the window.
THEOREM SpacedPolls == Spec => PollsSpaced
<1>1. Knows /\ [Next]_vars => [pc = "check" /\ pc' = "poll" => age >= Interval]_vars
  BY DEF Knows
<1>. QED BY <1>1, KnowsHolds, PTL DEF Spec, PollsSpaced

LEMMA OnTimeHolds == Spec => []OnTime
<1>1. Init => OnTime
  BY EffectiveLimit DEF Init, OnTime, Bounded, Limit, ReadBudget
<1>2. TypeOK /\ Knows /\ OnTime /\ [Next]_vars => OnTime'
  <2> SUFFICES ASSUME TypeOK, Knows, OnTime, [Next]_vars PROVE OnTime'
    OBVIOUS
  <2> USE DEF TypeOK, loopVars, Slack, Larger, Punctual, ReadBudget
  <2>0. Limit' = Limit /\ Bounded' = Bounded
    BY DEF Limit, Bounded, Next, Loop, Poll, Receive, Wake, ReadTimeout, Break, Finish,
           Reply, Tick, vars
  <2>1. CASE Poll
    <3>1. Bounded => window' = PollWindow(left)
      BY <2>1 DEF Poll
    <3>2. Bounded => window' <= Larger(Sec, left)
      BY <3>1, PollWindowBounds
    <3>3. window' \in Nat
      BY <2>1, <3>1, PollWindowBounds DEF Poll
    <3>. QED BY <2>0, <2>1, <3>2, <3>3 DEF Poll, Knows, OnTime
  <2>2. CASE Receive
    BY <2>0, <2>2 DEF Receive, End, Knows, OnTime
  <2>3. CASE Wake
    BY <2>0, <2>3 DEF Wake, Knows, OnTime
  <2>4. CASE ReadTimeout
    BY <2>0, <2>4 DEF ReadTimeout, End, Knows, OnTime
  <2>5. CASE Break
    BY <2>0, <2>5 DEF Break, End, Knows, OnTime
  <2>6. CASE Finish \/ Reply
    BY <2>0, <2>6 DEF Finish, Reply, OnTime
  <2>7. CASE Tick
    BY <2>0, <2>7 DEF Tick, Can, Knows, OnTime
  <2>8. CASE UNCHANGED vars
    BY <2>0, <2>8 DEF vars, OnTime
  <2>. QED BY <2>1, <2>2, <2>3, <2>4, <2>5, <2>6, <2>7, <2>8 DEF Next, Loop
<1>. QED BY <1>1, <1>2, WaitTypes, KnowsHolds, PTL DEF Spec

\* A Create times out after the smaller of the runner's and the plugin's
\* limit, and, if the last answer was in time, within the pad, one second and
\* the daemon's latency of it; whatever the daemon does, no wait outlives its
\* limit by more than the pad and the read budget.
THEOREM TimeoutsTimely == Spec => []TimeoutTimely
<1>1. TypeOK /\ OnTime => TimeoutTimely
  <2> SUFFICES ASSUME TypeOK, OnTime PROVE TimeoutTimely
    OBVIOUS
  <2>1. runner \in Nat /\ cap \in Nat /\ left \in Int
    BY DEF TypeOK
  <2>2. /\ Limit \in {runner, cap} /\ Limit \in Nat
        /\ \A limit \in {runner, cap} \ {0} : Bounded /\ Limit <= limit
    BY <2>1, EffectiveLimit DEF Bounded, Limit
  <2>3. ASSUME result = "timeout"
        PROVE  /\ Punctual => \A limit \in {runner, cap} \ {0} : Limit - left < limit + Slack
               /\ \E limit \in {runner, cap} \ {0} : Limit - left >= limit
    <3>1. Bounded /\ left <= 0 /\ (Punctual => 0 - Slack < left)
      BY <2>3 DEF OnTime
    <3>. QED BY <2>1, <2>2, <3>1 DEF Slack, Bounded
  <2>4. ASSUME NEW limit \in {runner, cap} \ {0}
        PROVE  Limit - left < limit + Interval + ReadBudget
    <3>1. 0 - (Interval + ReadBudget) < left
      BY <2>2 DEF OnTime
    <3>. QED BY <2>1, <2>2, <3>1 DEF ReadBudget
  <2>. QED BY <2>3, <2>4 DEF TimeoutTimely
<1>. QED BY <1>1, OnTimeHolds, WaitTypes, PTL

\* The read budget never cuts off a sound daemon, so a wait that ends in a
\* transport error ends so because something is wrong.
THEOREM BudgetsSuffice == Spec => []BudgetSuffices
<1>1. TypeOK /\ OnTime => BudgetSuffices
  BY DEF TypeOK, OnTime, BudgetSuffices, ReadBudget, Punctual
<1>. QED BY <1>1, OnTimeHolds, WaitTypes, PTL

=============================================================================
