--------------------------- MODULE ReadinessProofs ---------------------------
(***************************************************************************)
(* Proofs about Readiness, for any number of runtimes and any deadlines.   *)
(***************************************************************************)
EXTENDS Readiness, TLAPS

\* Every variable keeps its type.
THEOREM ReadyTypes == Spec => []TypeOK
<1>1. Init => TypeOK
  BY ReadinessAssumption DEF Init, TypeOK, Loops
<1>2. TypeOK /\ [Next]_vars => TypeOK'
  <2> SUFFICES ASSUME TypeOK, [Next]_vars PROVE TypeOK'
    OBVIOUS
  <2> USE ReadinessAssumption
  <2>1. CASE WaitAgent
    BY <2>1 DEF TypeOK, WaitAgent, Answers, Enter, Retry, End, Loops, instanceVars, clockVars
  <2>2. CASE WaitSystem
    BY <2>2 DEF TypeOK, WaitSystem, Answers, Enter, Retry, End, Loops, instanceVars, clockVars
  <2>3. CASE Diagnose
    BY <2>3 DEF TypeOK, Diagnose, Answers, Enter, Loops, instanceVars, clockVars
  <2>7. CASE Probe
    BY <2>7 DEF TypeOK, Probe, Answers, Enter, Settle, End, First, Loops, instanceVars, clockVars
  <2>8. CASE WaitDaemon
    BY <2>8 DEF TypeOK, WaitDaemon, Answers, Retry, Settle, End, Loops, instanceVars, clockVars
  <2>9. CASE Wake
    BY <2>9 DEF TypeOK, Wake, instanceVars
  <2>10. CASE Block
    BY <2>10 DEF TypeOK, Block, instanceVars
  <2>11. CASE Break
    BY <2>11 DEF TypeOK, Break, End, instanceVars, clockVars
  <2>4. CASE Instance
    BY <2>4 DEF TypeOK, Instance, AgentConnects, Install, BootEnds, DaemonStarts, clockVars
  <2>5. CASE Tick
    BY <2>5, ReadinessAssumption DEF TypeOK, Tick, instanceVars
  <2>6. CASE UNCHANGED vars
    BY <2>6 DEF TypeOK, vars
  <2>. QED BY <2>1, <2>2, <2>3, <2>4, <2>5, <2>6, <2>7, <2>8, <2>9,
                  <2>10, <2>11 DEF Next, Resolve
<1>. QED BY <1>1, <1>2, PTL DEF Spec

Chosen == result \in {"host", "container", "no_runtime"}

\* Behind the system wait the boot is over and accepted, and stays so.
Booted ==
  /\ step # "done" => result = "none"
  /\ (step \in {"diagnose", "probe", "daemon"} \/ Chosen) /\ preset # "none" =>
       boot # "going" /\ Ready(boot)

\* What the probes have found: the first of the runtimes they have come to.
Found ==
  /\ step \in {"agent", "system", "diagnose"} => next = 1 /\ runtime = 0
  /\ runtime # 0 => runtime \in installed
  /\ step = "probe" => runtime < next
  /\ step = "daemon" => runtime # 0
  /\ step = "probe" /\ preset # "none" =>
       \A r \in installed : r < next => runtime # 0 /\ runtime <= r
  /\ (step = "daemon" \/ Chosen) /\ preset # "none" =>
       \A r \in installed : runtime # 0 /\ runtime <= r
  /\ result = "no_runtime" => runtime = 0
  /\ result \in {"host", "container"} /\ runtime # 0 => runtime \in serving

LEMMA BootedHolds == Spec => []Booted
<1>1. Init => Booted
  BY DEF Init, Booted, Chosen
<1>2. TypeOK /\ Booted /\ [Next]_vars => Booted'
  <2> SUFFICES ASSUME TypeOK, Booted, [Next]_vars PROVE Booted'
    OBVIOUS
  <2> USE DEF Booted, Chosen, Ready, Loops
  <2>1. CASE WaitAgent \/ Diagnose \/ WaitDaemon \/ Probe
    BY <2>1 DEF WaitAgent, Diagnose, WaitDaemon, Probe, Answers, Enter, Retry, Settle, End,
                instanceVars, clockVars
  <2>2. CASE WaitSystem
    BY <2>2 DEF WaitSystem, Answers, Enter, Retry, End, instanceVars, clockVars
  <2>3. CASE Wake \/ Block \/ Break \/ Tick
    BY <2>3 DEF Wake, Block, Break, Tick, End, instanceVars, clockVars
  <2>4. CASE Instance
    BY <2>4 DEF Instance, AgentConnects, Install, BootEnds, DaemonStarts, clockVars
  <2>5. CASE UNCHANGED vars
    BY <2>5 DEF vars
  <2>. QED BY <2>1, <2>2, <2>3, <2>4, <2>5 DEF Next, Resolve
<1>. QED BY <1>1, <1>2, ReadyTypes, PTL DEF Spec

LEMMA FoundHolds == Spec => []Found
<1>1. Init => Found
  BY DEF Init, Found, Chosen
<1>2. TypeOK /\ Booted /\ Found /\ [Next]_vars => Found'
  <2> SUFFICES ASSUME TypeOK, Booted, Found, [Next]_vars PROVE Found'
    OBVIOUS
  <2> USE DEF Booted, Found, Chosen, Loops
  <2>0. \A r \in installed : ~(r < 1)
    BY DEF TypeOK
  <2>1. CASE WaitAgent
    BY <2>1, <2>0 DEF WaitAgent, Answers, Enter, Retry, End, instanceVars, clockVars
  <2>8. CASE Diagnose
    BY <2>8, <2>0 DEF Diagnose, Answers, Enter, instanceVars
  <2>2. CASE Probe
    BY <2>2 DEF TypeOK, Probe, First, Answers, Enter, Settle, End, instanceVars, clockVars
  <2>3. CASE WaitDaemon
    BY <2>3 DEF TypeOK, WaitDaemon, Answers, Retry, Settle, End, instanceVars, clockVars
  <2>4. CASE Wake \/ Block \/ Break \/ Tick
    BY <2>4 DEF Wake, Block, Break, Tick, End, instanceVars, clockVars
  <2>5. CASE Instance
    BY <2>5 DEF TypeOK, Instance, AgentConnects, Install, BootEnds, DaemonStarts, clockVars
  <2>6. CASE UNCHANGED vars
    BY <2>6 DEF vars
  <2>7. CASE WaitSystem
    BY <2>7, <2>0 DEF WaitSystem, Answers, Enter, Retry, End, instanceVars, clockVars
  <2>. QED BY <2>1, <2>2, <2>3, <2>4, <2>5, <2>6, <2>7, <2>8 DEF Next, Resolve
<1>. QED BY <1>1, <1>2, ReadyTypes, BootedHolds, PTL DEF Spec

\* No job starts behind a readiness preset before the boot is over, nor after
\* a boot that the preset does not accept.
THEOREM OnlyProvisioned == Spec => []Provisioned
<1>1. TypeOK /\ Booted => Provisioned
  BY DEF TypeOK, Booted, Chosen, Provisioned, Ready, CloudInitExit, SystemState, Outcomes
<1>. QED BY <1>1, ReadyTypes, BootedHolds, PTL

\* Behind a readiness preset the preferred runtime is found, if there is any.
THEOREM RightRuntime == Spec => []RuntimeRight
<1>1. TypeOK /\ Found => RuntimeRight
  BY DEF TypeOK, Found, Chosen, RuntimeRight
<1>. QED BY <1>1, ReadyTypes, FoundHolds, PTL

\* How a loop's clock stands.
OnTime ==
  /\ step # "done" => result = "none"
  /\ step \in {"done", "diagnose", "probe"} => mode # "pause"
  /\ step # "done" /\ mode = "blocked" => step = "system"
  /\ step \in Loops /\ mode = "pause" =>
       elapsed < Limit[step] + spent /\ spent <= Pause[step]
  /\ step \in Loops /\ mode = "command" =>
       elapsed <= Limit[step] + Pause[step] + spent /\ spent <= Delay
  /\ PatienceExact

\* A loop keeps to its deadline from both sides.
THEOREM PatienceIsExact == Spec => []PatienceExact
<1>1. Init => OnTime
  BY ReadinessAssumption DEF Init, OnTime, PatienceExact, Loops
<1>2. TypeOK /\ OnTime /\ [Next]_vars => OnTime'
  <2> SUFFICES ASSUME TypeOK, OnTime, [Next]_vars PROVE OnTime'
    OBVIOUS
  <2> USE DEF OnTime, PatienceExact, Loops
  <2>1. CASE WaitAgent
    BY <2>1, ReadinessAssumption DEF TypeOK, WaitAgent, Answers, Enter, Retry, End, clockVars
  <2>2. CASE WaitSystem
    BY <2>2, ReadinessAssumption DEF TypeOK, WaitSystem, Answers, Enter, Retry, End, clockVars
  <2>3. CASE Diagnose \/ Probe
    BY <2>3, ReadinessAssumption DEF TypeOK, Diagnose, Probe, Answers, Enter, Settle, End, clockVars
  <2>4. CASE WaitDaemon
    BY <2>4, ReadinessAssumption DEF TypeOK, WaitDaemon, Answers, Retry, Settle, End, clockVars
  <2>5. CASE Wake \/ Block \/ Break
    BY <2>5, ReadinessAssumption DEF TypeOK, Wake, Block, Break, End, clockVars
  <2>6. CASE Tick
    BY <2>6, ReadinessAssumption DEF TypeOK, Tick
  <2>7. CASE Instance \/ UNCHANGED vars
    BY <2>7 DEF Instance, AgentConnects, Install, BootEnds, DaemonStarts, clockVars, vars
  <2>. QED BY <2>1, <2>2, <2>3, <2>4, <2>5, <2>6, <2>7 DEF Next, Resolve
<1>3. OnTime => PatienceExact
  BY DEF OnTime
<1>. QED BY <1>1, <1>2, <1>3, ReadyTypes, PTL DEF Spec
=============================================================================
