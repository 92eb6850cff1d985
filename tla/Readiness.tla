------------------------------ MODULE Readiness ------------------------------
(***************************************************************************)
(* resolve (executor.py): how Create waits, before it picks what a job     *)
(* runs in, for the instance's guest agent, for the system-ready command   *)
(* and for the daemon of the container runtime it finds, against an        *)
(* instance that boots meanwhile.                                          *)
(*                                                                         *)
(* Time passes while a command runs and while a loop sleeps.  elapsed is   *)
(* what a loop has used of its deadline and stops counting at Horizon.     *)
(* Runtimes are numbered in the order of _RUNTIMES; 0 is no runtime.       *)
(***************************************************************************)
EXTENDS Naturals

CONSTANTS
  Last,     \* the number of runtimes looked for
  Limit,    \* the deadline of each loop, in ticks
  Pause,    \* the sleep between two polls of each loop, in ticks
  Delay,    \* how long a command that does not block may take, in ticks
  Horizon,  \* where elapsed stops counting
  Faults    \* {} or {"broken"}: a REST call or an exec may raise

Loops == {"agent", "system", "daemon"}
Presets == {"none", "command", "cloud-init", "cloud-init-strict", "systemd", "systemd-strict"}
Outcomes == {"clean", "recoverable", "degraded", "broken"}

ASSUME ReadinessAssumption ==
  /\ Last \in Nat \ {0}
  /\ Limit \in [Loops -> Nat] /\ Pause \in [Loops -> Nat]
  /\ Delay \in Nat
  /\ Horizon \in Nat /\ \A l \in Loops : Limit[l] + Pause[l] + Delay < Horizon
  /\ Faults \subseteq {"broken"}

VARIABLES
  preset,    \* the system-ready option
  image,     \* the job asks for a container image
  agent,     \* instance: the guest agent is connected
  boot,      \* instance: "going", or how the boot and its provisioning ended
  installed, \* instance: the runtimes it has
  serving,   \* instance: the runtimes whose daemon answers
  step,      \* resolve: the loop, "diagnose", "probe" or "done"
  mode,      \* "command", "blocked" (a command waits for the boot) or "pause"
  elapsed,   \* ticks since the loop began
  spent,     \* ticks since the mode began, or since a block was lifted
  next,      \* the runtime that is probed for
  runtime,   \* the first runtime found
  result     \* "none", "host", "container", "no_runtime", "error", or the loop
             \* whose deadline passed

instanceVars == <<agent, boot, installed, serving>>
clockVars == <<elapsed, spent>>
vars == <<preset, image, agent, boot, installed, serving, step, mode, elapsed, spent,
          next, runtime, result>>

Init ==
  /\ preset \in Presets /\ image \in BOOLEAN
  /\ agent \in BOOLEAN /\ boot \in Outcomes \cup {"going"}
  /\ installed \in SUBSET (1..Last) /\ serving \in SUBSET installed
  /\ step = "agent" /\ mode = "command" /\ elapsed = 0 /\ spent = 0
  /\ next = 1 /\ runtime = 0 /\ result = "none"

-----------------------------------------------------------------------------
(* How the waits move on.                                                  *)

\* Ask again, in step s, with a new deadline.
Enter(s) ==
  /\ step' = s /\ mode' = "command" /\ elapsed' = 0 /\ spent' = 0
  /\ UNCHANGED result

End(r) == step' = "done" /\ result' = r /\ UNCHANGED <<mode, clockVars>>

\* Slips: the sleep is taken off the deadline; a loop has none.
Retry_Early ==
  \/ elapsed + Pause[step] >= Limit[step] /\ End(step)
  \/ /\ elapsed + Pause[step] < Limit[step]
     /\ mode' = "pause" /\ spent' = 0 /\ UNCHANGED <<step, elapsed, result>>

Retry_Forever == mode' = "pause" /\ spent' = 0 /\ UNCHANGED <<step, elapsed, result>>

\* Not ready: raise if the deadline has passed, sleep otherwise.
Retry ==
  \/ elapsed >= Limit[step] /\ End(step)
  \/ elapsed < Limit[step] /\ mode' = "pause" /\ spent' = 0 /\ UNCHANGED <<step, elapsed, result>>

\* The command of step s answers, early or late.
Answers(s) == step = s /\ mode \in {"command", "blocked"}

\* What `cloud-init status --wait` exits with, and what `systemctl
\* is-system-running --wait` says, once the boot is over.
CloudInitExit == [clean |-> 0, degraded |-> 0, recoverable |-> 2, broken |-> 1]
SystemState == [clean |-> "running", recoverable |-> "running",
                degraded |-> "degraded", broken |-> "degraded"]

\* Slip: recoverable errors and errors are both taken for a completed boot.
Ready_AnyExit(b) ==
  \/ preset = "cloud-init"
  \/ preset \in {"command", "cloud-init-strict"} /\ CloudInitExit[b] = 0
  \/ preset = "systemd" /\ SystemState[b] \in {"running", "degraded"}
  \/ preset = "systemd-strict" /\ SystemState[b] = "running"

\* The verdict of wait_system_ready on a boot that ended as b.  A command of
\* the operator's is taken to be a test that exits 0 as cloud-init does.
Ready(b) ==
  \/ preset = "cloud-init" /\ CloudInitExit[b] \in {0, 2}
  \/ preset \in {"command", "cloud-init-strict"} /\ CloudInitExit[b] = 0
  \/ preset = "systemd" /\ SystemState[b] \in {"running", "degraded"}
  \/ preset = "systemd-strict" /\ SystemState[b] = "running"

-----------------------------------------------------------------------------
(* resolve.                                                                *)

\* Slip: the runtime is looked for without waiting for the system.
WaitAgent_NoSystem ==
  /\ Answers("agent")
  /\ \/ agent /\ Enter("probe")
     \/ ~agent /\ Retry
  /\ UNCHANGED <<preset, image, instanceVars, next, runtime>>

\* wait_agent_ready; with no preset there is no system to wait for.
WaitAgent ==
  /\ Answers("agent")
  /\ \/ agent /\ Enter(IF preset = "none" THEN "probe" ELSE "system")
     \/ ~agent /\ Retry
  /\ UNCHANGED <<preset, image, instanceVars, next, runtime>>

\* A command with --wait, or the operator's own, may wait for the boot.
Block ==
  /\ step = "system" /\ mode = "command" /\ boot = "going"
  /\ mode' = "blocked" /\ spent' = 0
  /\ UNCHANGED <<preset, image, instanceVars, step, elapsed, next, runtime, result>>

\* wait_system_ready.  While the boot goes on, a command that does not block
\* fails: "starting", or a tool that is not there yet.
WaitSystem ==
  /\ Answers("system")
  /\ \/ boot = "going" /\ mode = "command" /\ Retry
     \/ boot # "going" /\ ~Ready(boot) /\ Retry
     \/ /\ boot # "going" /\ Ready(boot)
        /\ Enter(IF preset = "systemd" /\ SystemState[boot] = "degraded"
                 THEN "diagnose" ELSE "probe")
  /\ UNCHANGED <<preset, image, instanceVars, next, runtime>>

\* systemctl --failed, for the log.
Diagnose ==
  /\ Answers("diagnose") /\ Enter("probe")
  /\ UNCHANGED <<preset, image, instanceVars, next, runtime>>

\* The last lines of resolve: what the job runs in, given the runtime r.
Settle(r) ==
  \/ ~image /\ End("host")
  \/ image /\ r = 0 /\ End("no_runtime")
  \/ image /\ r # 0 /\ End("container")

First == IF runtime = 0 /\ next \in installed THEN next ELSE runtime

\* Slip: one runtime too many is probed for.
Probe_OffByOne ==
  /\ Answers("probe")
  /\ runtime' = First
  /\ \/ next <= Last /\ next' = next + 1 /\ Enter("probe")
     \/ next > Last /\ First = 0 /\ Settle(0) /\ UNCHANGED next
     \/ next > Last /\ First # 0 /\ Enter("daemon") /\ UNCHANGED next
  /\ UNCHANGED <<preset, image, instanceVars>>

\* detect_runtime: `command -v` for each runtime in turn; the first one that
\* was found is used.
Probe ==
  /\ Answers("probe")
  /\ runtime' = First
  /\ \/ next < Last /\ next' = next + 1 /\ Enter("probe")
     \/ next = Last /\ First = 0 /\ Settle(0) /\ UNCHANGED next
     \/ next = Last /\ First # 0 /\ Enter("daemon") /\ UNCHANGED next
  /\ UNCHANGED <<preset, image, instanceVars>>

\* detect_runtime: `<runtime> version` until its daemon answers.
WaitDaemon ==
  /\ Answers("daemon")
  /\ \/ runtime \in serving /\ Settle(runtime)
     \/ runtime \notin serving /\ Retry
  /\ UNCHANGED <<preset, image, instanceVars, next, runtime>>

Wake ==
  /\ mode = "pause" /\ step \in Loops /\ spent >= Pause[step]
  /\ mode' = "command" /\ spent' = 0
  /\ UNCHANGED <<preset, image, instanceVars, step, elapsed, next, runtime, result>>

\* A call raises httpx.HTTPError or BackendOperationError.
Break ==
  /\ "broken" \in Faults /\ step # "done" /\ mode # "pause"
  /\ End("error")
  /\ UNCHANGED <<preset, image, instanceVars, next, runtime>>

-----------------------------------------------------------------------------
(* The instance and the clock.                                             *)

AgentConnects ==
  /\ ~agent /\ agent' = TRUE
  /\ UNCHANGED <<preset, image, boot, installed, serving, step, mode, clockVars, next,
                 runtime, result>>

\* Provisioning installs runtimes while the boot goes on.
Install(r) ==
  /\ boot = "going" /\ installed' = installed \cup {r}
  /\ UNCHANGED <<preset, image, agent, boot, serving, step, mode, clockVars, next,
                 runtime, result>>

BootEnds ==
  /\ boot = "going" /\ boot' \in Outcomes
  /\ UNCHANGED <<preset, image, agent, installed, serving, step, mode, clockVars, next,
                 runtime, result>>

DaemonStarts(r) ==
  /\ r \in installed /\ serving' = serving \cup {r}
  /\ UNCHANGED <<preset, image, agent, boot, installed, step, mode, clockVars, next,
                 runtime, result>>

\* A command that does not block, or no longer does, answers within Delay.
Tick ==
  /\ step # "done"
  /\ \/ mode = "pause" /\ step \in Loops /\ spent < Pause[step]
     \/ mode = "command" /\ spent < Delay
     \/ mode = "blocked" /\ (boot = "going" \/ spent < Delay)
  /\ elapsed' = IF elapsed < Horizon THEN elapsed + 1 ELSE elapsed
  /\ spent' = IF mode = "blocked" /\ boot = "going" THEN 0 ELSE spent + 1
  /\ UNCHANGED <<preset, image, instanceVars, step, mode, next, runtime, result>>

Resolve == WaitAgent \/ WaitSystem \/ Diagnose \/ Probe \/ WaitDaemon \/ Wake
Instance ==
  AgentConnects \/ BootEnds \/ \E r \in 1..Last : Install(r) \/ DaemonStarts(r)
Next == Resolve \/ Block \/ Break \/ Instance \/ Tick

Spec == Init /\ [][Next]_vars

\* The loops run and time passes.  The instance need do nothing at all.
FairSpec == Spec /\ WF_vars(Resolve) /\ WF_vars(Tick)

-----------------------------------------------------------------------------
TypeOK ==
  /\ preset \in Presets /\ image \in BOOLEAN
  /\ agent \in BOOLEAN /\ boot \in Outcomes \cup {"going"}
  /\ installed \subseteq 1..Last /\ serving \subseteq installed
  /\ step \in Loops \cup {"diagnose", "probe", "done"}
  /\ mode \in {"command", "blocked", "pause"}
  /\ elapsed \in 0..Horizon /\ spent \in Nat
  /\ next \in 1..Last /\ runtime \in 0..Last
  /\ result \in {"none", "host", "container", "no_runtime", "error"} \cup Loops

\* A job starts on an instance with a readiness preset only when the boot is
\* over, and not after a boot its preset does not accept: cloud-init forgives
\* recoverable errors, systemd failed units, the strict presets nothing.
Provisioned ==
  result \in {"host", "container"} /\ preset # "none" =>
    /\ boot # "going"
    /\ preset = "cloud-init" => boot # "broken"
    /\ preset \in {"cloud-init-strict", "command"} => boot \notin {"recoverable", "broken"}
    /\ preset = "systemd-strict" => boot \notin {"degraded", "broken"}

\* Behind a readiness preset no runtime is missed, though the probes are
\* separate commands in an instance that is installing things: a job fails
\* for want of a runtime only if there is none, and gets the preferred one,
\* with its daemon answering, otherwise.
RuntimeRight ==
  /\ result = "no_runtime" /\ preset # "none" => installed = {}
  /\ result \in {"host", "container"} /\ preset # "none" =>
       \A r \in installed : runtime # 0 /\ runtime <= r
  /\ result \in {"host", "container"} /\ runtime # 0 => runtime \in serving

\* A loop gives up neither before its deadline nor, unless its last command
\* waited for the boot, later than one sleep and one command after it; and none
\* goes on for longer, save in a command that waits for the boot.
PatienceExact ==
  /\ result \in Loops =>
       /\ Limit[result] <= elapsed
       /\ mode # "blocked" => elapsed <= Limit[result] + Pause[result] + Delay
  /\ step \in Loops /\ mode # "blocked" => elapsed <= Limit[step] + Pause[step] + Delay

\* Once nothing holds a --wait command up any more, resolve ends, even if the
\* agent never connects and no daemon ever answers.
ResolveEnds == (boot # "going" \/ preset = "none") ~> step = "done"
=============================================================================
