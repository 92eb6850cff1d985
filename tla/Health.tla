------------------------------- MODULE Health -------------------------------
(***************************************************************************)
(* HealthService (health.py): a thread asks the daemon whether it is there *)
(* and publishes the answer under two names and to a gauge, one after the  *)
(* other, until it is told to stop.  Server composes it with what starts   *)
(* and stops it.                                                           *)
(*                                                                         *)
(* Time passes while a probe is under way and while the thread naps.  The  *)
(* clock is Tick of Server; PollerWaits says when the thread lets it run.  *)
(***************************************************************************)
EXTENDS Naturals

CONSTANTS
  Interval,   \* the pause between two probes, in ticks
  ProbeTime,  \* bound: how long a probe takes until it answers or times out
  Horizon     \* where settled and ending stop counting

ASSUME HealthAssumption ==
  /\ Interval \in Nat /\ ProbeTime \in Nat
  /\ Horizon \in Nat /\ ProbeTime + Interval + ProbeTime < Horizon

Overall == ""
Backend == "plugin.v1alpha.BackendPlugin"

VARIABLES
  reachable, \* the daemon answers GET /1.0
  polling,   \* the interval is positive
  stopping,  \* _stop_event is set
  poller,    \* what the thread does next; "none" if there is none
  spent,     \* ticks since the probe or the nap began
  found,     \* what the probe in hand has found
  status,    \* what Check answers for each name
  gauge,     \* lxd_reachable
  settled    \* history: ticks since the daemon changed or the thread began

publishedVars == <<status, gauge>>
healthVars == <<reachable, polling, stopping, poller, spent, found, status, gauge, settled>>

HealthTypeOK ==
  /\ reachable \in BOOLEAN /\ polling \in BOOLEAN /\ stopping \in BOOLEAN
  /\ poller \in {"none", "head", "asking", "answered", "backend", "gauge", "nap", "over"}
  /\ spent \in 0..Horizon
  /\ found \in BOOLEAN
  /\ status \in [{Overall, Backend} -> {"SERVICE_UNKNOWN", "SERVING", "NOT_SERVING"}]
  /\ gauge \in BOOLEAN
  /\ settled \in 0..Horizon

\* grpc_health's servicer says SERVING for "" before anything is published.
HealthInit ==
  /\ reachable \in BOOLEAN /\ polling \in BOOLEAN
  /\ stopping = FALSE /\ poller = "none" /\ spent = 0 /\ found = FALSE
  /\ status = [n \in {Overall, Backend} |->
                 IF n = Overall THEN "SERVING" ELSE "SERVICE_UNKNOWN"]
  /\ gauge = FALSE /\ settled = 0

As(serving) == IF serving THEN "SERVING" ELSE "NOT_SERVING"

-----------------------------------------------------------------------------
(* A slip that a change of the code could make.                            *)

\* The exception of a failed request is not caught and ends the thread.
Probe_Raises ==
  /\ poller = "asking"
  /\ found' = reachable
  /\ poller' = IF reachable THEN "answered" ELSE "over"
  /\ UNCHANGED <<reachable, polling, stopping, spent, status, gauge, settled>>

-----------------------------------------------------------------------------
(* The thread.                                                             *)

\* start(): no thread without an interval.
StartPoller ==
  /\ poller' = IF polling THEN "head" ELSE "none"
  /\ settled' = 0
  /\ UNCHANGED <<reachable, polling, stopping, spent, found, status, gauge>>

\* The head of the loop in _run.
Loop ==
  /\ poller = "head"
  /\ poller' = IF stopping THEN "over" ELSE "asking"
  /\ spent' = 0
  /\ UNCHANGED <<reachable, polling, stopping, found, status, gauge, settled>>

\* The daemon answers or does not; an answer takes a while to arrive.
Probe ==
  /\ poller = "asking"
  /\ found' = reachable
  /\ poller' = "answered"
  /\ UNCHANGED <<reachable, polling, stopping, spent, status, gauge, settled>>

PublishOverall ==
  /\ poller = "answered"
  /\ status' = [status EXCEPT ![Overall] = As(found)]
  /\ poller' = "backend"
  /\ UNCHANGED <<reachable, polling, stopping, spent, found, gauge, settled>>

PublishBackend ==
  /\ poller = "backend"
  /\ status' = [status EXCEPT ![Backend] = As(found)]
  /\ poller' = "gauge"
  /\ UNCHANGED <<reachable, polling, stopping, spent, found, gauge, settled>>

\* on_status, which is set_lxd_reachable of the metrics.
SetGauge ==
  /\ poller = "gauge"
  /\ gauge' = found
  /\ poller' = "nap" /\ spent' = 0
  /\ UNCHANGED <<reachable, polling, stopping, found, status, settled>>

\* Event.wait returns at once when the event is set.
Nap ==
  /\ poller = "nap"
  /\ \/ stopping /\ poller' = "over"
     \/ ~stopping /\ spent = Interval /\ poller' = "head"
  /\ UNCHANGED <<reachable, polling, stopping, spent, found, status, gauge, settled>>

PollerStep == Loop \/ Probe \/ PublishOverall \/ PublishBackend \/ SetGauge \/ Nap

\* The daemon comes or goes.
DaemonChanges ==
  /\ reachable' = ~reachable /\ settled' = 0
  /\ UNCHANGED <<polling, stopping, poller, spent, found, status, gauge>>

-----------------------------------------------------------------------------
(* The clock.                                                              *)

PollerWaits ==
  \/ poller \in {"none", "over"}
  \/ poller \in {"asking", "answered"} /\ spent < ProbeTime
  \/ poller = "nap" /\ spent < Interval /\ ~stopping

Later(age) == IF age < Horizon THEN age + 1 ELSE age

HealthTick ==
  /\ PollerWaits
  /\ spent' = IF poller \in {"none", "over"} THEN spent ELSE spent + 1
  /\ settled' = Later(settled)
  /\ UNCHANGED <<reachable, polling, stopping, poller, found, status, gauge>>

-----------------------------------------------------------------------------
\* Once the daemon has been up, or down, for a nap and two probes, everyone who
\* asks is told so, under either name and by the gauge, for as long as the
\* poller has not been told to stop: nothing that fails ends the thread, and no
\* old finding is published late.
Fresh ==
  poller # "none" /\ ~stopping /\ settled > ProbeTime + Interval + ProbeTime =>
    /\ \A n \in {Overall, Backend} : status[n] = As(reachable)
    /\ gauge = reachable

=============================================================================
