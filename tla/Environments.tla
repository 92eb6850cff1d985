---------------------------- MODULE Environments ----------------------------
(***************************************************************************)
(* The life of job environments: the Create, Start and Remove handlers of  *)
(* the plugin (server.py), running in gRPC worker threads, against the     *)
(* LXD/Incus daemon, one step per REST call (client.py).                   *)
(*                                                                         *)
(* A handler step and the daemon's answer to it are one action; what a     *)
(* handler does between two calls belongs to the step of the first.  The   *)
(* daemon's create operation runs on its own and survives the handler that *)
(* asked for it.  Everything that may go wrong is a named kind of fault,   *)
(* and Faults says which kinds a behaviour may show.                       *)
(***************************************************************************)
EXTENDS Naturals

CONSTANTS
  Names,     \* job handles: CreateRequest.name = environment_id; the daemon's
             \* instance name is the handle behind a fixed prefix
  Networks,  \* the names _network_name() may draw
  Threads,   \* the worker threads of the gRPC server
  None,      \* no environment, no network, no record
  Faults     \* the kinds of fault this behaviour may show

FaultKinds == {
  "refuse",       \* the daemon rejects a create request or fails its operation
  "boot",         \* the create operation fails after the instance was made
  "network_lost", \* the network's create operation is lost sight of
  "launch_lost",  \* the connection breaks while the launch is under way
  "slow",         \* the launch outlives the create timeout
  "typo",         \* the `ephemeral` backend option is not a boolean
  "setup",        \* readiness, services, job container or record fetch fail
  "escape",       \* a websocket error that no handler catches
  "teardown",     \* a REST call of the teardown fails
  "operator",     \* someone else stops or deletes an instance
  "impatient",    \* the runner stops waiting for a unary RPC
  "restart" }     \* the plugin process dies and comes back

ASSUME EnvironmentsAssumption ==
  /\ None \notin Names
  /\ None \notin Networks
  /\ Faults \subseteq FaultKinds

Can(kind) == kind \in Faults

VARIABLES
  status,     \* daemon: "absent", "stopped" or "running", per instance
  op,         \* daemon: the instance's create operation
  nic,        \* daemon: the network the instance was launched on
  ephemeral,  \* daemon: the instance is deleted when it stops
  nets,       \* daemon: the managed networks that exist
  label,      \* the job each generated network name was drawn for
  envs,       \* plugin: _envs, reduced to the network each record holds
  pc,         \* plugin: what each worker thread does next
  ctx,        \* plugin: the call each worker thread is serving
  phase,      \* runner: how far it has come with each job
  told        \* runner: the last status code it was told about each job

daemonVars == <<status, op, nic, ephemeral, nets>>
handlerVars == <<pc, ctx, phase, told>>
vars == <<status, op, nic, ephemeral, nets, label, envs, pc, ctx, phase, told>>

Codes == {"OK", "INVALID_ARGUMENT", "NOT_FOUND", "INTERNAL", "UNKNOWN",
          "DEADLINE_EXCEEDED", "FAILED_PRECONDITION", "UNAVAILABLE"}
Phases == {"new", "creating", "created", "failed", "removing", "removed"}
Building == {"network", "launch", "launching", "setup", "describe", "record"}
TearingDown == {"cleanup", "probe", "stop", "delete", "deleting", "unplug"}
Starting == {"start_probe", "start_container"}

Context(rpc, n, w, c) == [rpc |-> rpc, env |-> n, net |-> w, code |-> c]
NoCall == Context("none", None, None, "OK")

\* Thread t has the environment n in hand, to make it or to take it down.
WorksOn(t, n) == ctx[t].env = n /\ ctx[t].rpc \in {"Create", "Remove"}

\* The daemon refuses to delete a network an instance refers to.
InUse(w) == \E n \in Names : status[n] # "absent" /\ nic[n] = w

Init ==
  /\ status = [n \in Names |-> "absent"]
  /\ op = [n \in Names |-> "none"]
  /\ nic = [n \in Names |-> None]
  /\ ephemeral = [n \in Names |-> FALSE]
  /\ nets = {}
  /\ label = [w \in Networks |-> None]
  /\ envs = [n \in Names |-> None]
  /\ pc = [t \in Threads |-> "idle"]
  /\ ctx = [t \in Threads |-> NoCall]
  /\ phase = [n \in Names |-> "new"]
  /\ told = [n \in Names |-> "OK"]

-----------------------------------------------------------------------------
(* How a handler moves on.                                                 *)

\* _rest_error_to_grpc: the gRPC code for a failed call to the daemon.  A
\* 400, 409 or 422 and a failed operation are "refused", a 404 is "missing".
RestErrorToGrpc(error) ==
  IF error = "refused" THEN "INVALID_ARGUMENT"
  ELSE IF error = "missing" THEN "NOT_FOUND" ELSE "INTERNAL"

\* Where code c, answering a call of rpc, takes the runner.
Onward(p, rpc, c) ==
  IF rpc = "Create" /\ p = "creating"
  THEN IF c = "OK" THEN "created" ELSE "failed"
  ELSE IF rpc = "Remove" /\ c = "OK" THEN "removed" ELSE p

Goto(t, step) == pc' = [pc EXCEPT ![t] = step] /\ UNCHANGED <<ctx, phase, told>>

\* Go to step and remember code c, which the handler will abort with.
GotoFailing(t, step, c) ==
  /\ pc' = [pc EXCEPT ![t] = step]
  /\ ctx' = [ctx EXCEPT ![t] = Context(ctx[t].rpc, ctx[t].env, ctx[t].net, c)]
  /\ UNCHANGED <<phase, told>>

\* The handler returns, aborts with, or is cut short as, code c.
Answer(t, c) ==
  /\ pc' = [pc EXCEPT ![t] = "idle"]
  /\ ctx' = [ctx EXCEPT ![t] = NoCall]
  /\ phase' = [phase EXCEPT ![ctx[t].env] = Onward(phase[ctx[t].env], ctx[t].rpc, c)]
  /\ told' = [told EXCEPT ![ctx[t].env] = c]

\* remove_instance raised: _discard logs it and goes on to the network,
\* Remove aborts.
RemovalFailed(t, error) ==
  IF ctx[t].rpc = "Create" THEN Goto(t, "unplug")
                           ELSE Answer(t, RestErrorToGrpc(error))

Serve(t, step, rpc, n, w) ==
  /\ pc[t] = "idle"
  /\ pc' = [pc EXCEPT ![t] = step]
  /\ ctx' = [ctx EXCEPT ![t] = Context(rpc, n, w, "OK")]

-----------------------------------------------------------------------------
(* Slips that a change of the handlers could make; each breaks a property. *)

\* Remove looks the record up and leaves it in the map.
CallRemove_Get(t, n) ==
  /\ phase[n] \in {"created", "failed", "removing", "removed"}
  /\ Can("impatient") \/ \A u \in Threads : ~WorksOn(u, n)
  /\ \/ /\ envs[n] # None
        /\ Serve(t, "cleanup", "Remove", n, envs[n])
        /\ phase' = [phase EXCEPT ![n] = "removing"]
        /\ UNCHANGED told
     \/ /\ envs[n] = None /\ pc[t] = "idle"
        /\ phase' = [phase EXCEPT ![n] = "removed"]
        /\ told' = [told EXCEPT ![n] = "OK"]
        /\ UNCHANGED <<pc, ctx>>
  /\ UNCHANGED <<daemonVars, label, envs>>

\* All jobs share a bridge that is made once.
CallCreate_Shared(t, n) ==
  /\ phase[n] = "new"
  /\ \E w \in Networks :
       /\ label' = [label EXCEPT ![w] = n]
       /\ Serve(t, "network", "Create", n, w)
  /\ phase' = [phase EXCEPT ![n] = "creating"]
  /\ UNCHANGED <<daemonVars, envs, told>>

\* The record keeps the handle where the network belongs.
Record_Handle(t) ==
  /\ pc[t] = "record"
  /\ envs' = [envs EXCEPT ![ctx[t].env] = ctx[t].env]
  /\ Answer(t, "OK")
  /\ UNCHANGED <<daemonVars, label>>

\* A failed operation is taken for one that is still running.
LaunchWait_Deaf(t) ==
  LET n == ctx[t].env IN
  /\ pc[t] = "launching"
  /\ \/ op[n] = "success" /\ Goto(t, "setup")
     \/ /\ op[n] = "pending" /\ Can("slow")
        /\ GotoFailing(t, "probe", "DEADLINE_EXCEEDED")
     \/ /\ Can("launch_lost")
        /\ GotoFailing(t, "unplug", RestErrorToGrpc("lost"))
  /\ UNCHANGED <<daemonVars, label, envs>>

\* A failing setup aborts without discarding the instance.
Setup_NoDiscard(t) ==
  LET n == ctx[t].env IN
  /\ pc[t] = "setup"
  /\ \/ status[n] = "running" /\ Goto(t, "describe")
     \/ /\ status[n] # "running" \/ Can("setup") \/ Can("escape")
        /\ Answer(t, "INTERNAL")
  /\ UNCHANGED <<daemonVars, label, envs>>

\* Stopping is taken to delete the instance.
Stop_LikeEphemeral(t) ==
  LET n == ctx[t].env IN
  /\ pc[t] = "stop"
  /\ \/ /\ status[n] = "running"
        /\ status' = [status EXCEPT ![n] = IF ephemeral[n] THEN "absent" ELSE "stopped"]
        /\ Goto(t, "unplug")
     \/ status[n] = "absent" /\ Goto(t, "unplug") /\ UNCHANGED status
     \/ status[n] = "stopped" /\ RemovalFailed(t, "refused") /\ UNCHANGED status
  /\ UNCHANGED <<op, nic, ephemeral, nets, label, envs>>

\* The DELETE of an instance that went with its stop is an error.
Delete_MissingNotOk(t) ==
  LET n == ctx[t].env IN
  /\ pc[t] = "delete"
  /\ \/ status[n] = "stopped" /\ op[n] # "pending" /\ Goto(t, "deleting")
     \/ status[n] = "absent" /\ RemovalFailed(t, "missing")
     \/ /\ status[n] = "running" \/ (status[n] = "stopped" /\ op[n] = "pending")
        /\ RemovalFailed(t, "refused")
  /\ UNCHANGED <<daemonVars, label, envs>>

-----------------------------------------------------------------------------
(* Create.                                                                 *)

\* The request fails validation before anything is made.
RejectCreate(t, n) ==
  /\ pc[t] = "idle" /\ phase[n] = "new"
  /\ phase' = [phase EXCEPT ![n] = "failed"]
  /\ told' = [told EXCEPT ![n] = "INVALID_ARGUMENT"]
  /\ UNCHANGED <<daemonVars, label, envs, pc, ctx>>

\* The job's handle is new to the plugin, and the uuid in the network's name
\* is new to everyone.
CallCreate(t, n) ==
  /\ phase[n] = "new"
  /\ \E w \in Networks :
       /\ label[w] = None
       /\ label' = [label EXCEPT ![w] = n]
       /\ Serve(t, "network", "Create", n, w)
  /\ phase' = [phase EXCEPT ![n] = "creating"]
  /\ UNCHANGED <<daemonVars, envs, told>>

CreateNetwork(t) ==
  /\ pc[t] = "network"
  /\ \/ /\ nets' = nets \cup {ctx[t].net}
        /\ Goto(t, "launch")
     \/ /\ Can("refuse")
        /\ Answer(t, RestErrorToGrpc("refused")) /\ UNCHANGED nets
     \/ /\ Can("network_lost")
        /\ nets' = nets \cup {ctx[t].net}
        /\ Answer(t, RestErrorToGrpc("lost"))
  /\ UNCHANGED <<status, op, nic, ephemeral, label, envs>>

\* `ephemeral` is parsed between the two create requests.
RejectEphemeral(t) ==
  /\ pc[t] = "launch" /\ Can("typo")
  /\ Answer(t, "INVALID_ARGUMENT")
  /\ UNCHANGED <<daemonVars, label, envs>>

\* POST /1.0/instances.
Launch(t) ==
  LET n == ctx[t].env IN
  /\ pc[t] = "launch"
  /\ \/ /\ op' = [op EXCEPT ![n] = "pending"]
        /\ nic' = [nic EXCEPT ![n] = ctx[t].net]
        /\ \E e \in BOOLEAN : ephemeral' = [ephemeral EXCEPT ![n] = e]
        /\ Goto(t, "launching")
     \/ /\ Can("refuse")
        /\ GotoFailing(t, "unplug", RestErrorToGrpc("refused"))
        /\ UNCHANGED <<op, nic, ephemeral>>
  /\ UNCHANGED <<status, nets, label, envs>>

\* GET .../wait until the operation ends, the create timeout passes, or the
\* connection breaks.  Only a timeout discards the instance.
LaunchWait(t) ==
  LET n == ctx[t].env IN
  /\ pc[t] = "launching"
  /\ \/ op[n] = "success" /\ Goto(t, "setup")
     \/ /\ op[n] = "failure"
        /\ GotoFailing(t, "unplug", RestErrorToGrpc("refused"))
     \/ /\ op[n] = "pending" /\ Can("slow")
        /\ GotoFailing(t, "probe", "DEADLINE_EXCEEDED")
     \/ /\ Can("launch_lost")
        /\ GotoFailing(t, "unplug", RestErrorToGrpc("lost"))
  /\ UNCHANGED <<daemonVars, label, envs>>

\* resolve(), _start_services() and executor.create(): execs inside the
\* instance, so they succeed only while it runs.
Setup(t) ==
  LET n == ctx[t].env IN
  /\ pc[t] = "setup"
  /\ \/ status[n] = "running" /\ Goto(t, "describe")
     \/ /\ status[n] = "absent"
        /\ GotoFailing(t, "probe", RestErrorToGrpc("missing"))
     \/ /\ status[n] = "stopped" \/ Can("setup")
        /\ \E c \in {"FAILED_PRECONDITION", "INVALID_ARGUMENT", "INTERNAL"} :
             GotoFailing(t, "probe", c)
     \/ Can("escape") /\ Answer(t, "UNKNOWN")
  /\ UNCHANGED <<daemonVars, label, envs>>

\* GET /1.0/instances/<name>.
Describe(t) ==
  /\ pc[t] = "describe"
  /\ \/ status[ctx[t].env] # "absent" /\ Goto(t, "record")
     \/ /\ status[ctx[t].env] = "absent"
        /\ GotoFailing(t, "probe", RestErrorToGrpc("missing"))
     \/ Can("setup") /\ GotoFailing(t, "probe", RestErrorToGrpc("lost"))
  /\ UNCHANGED <<daemonVars, label, envs>>

Record(t) ==
  /\ pc[t] = "record"
  /\ envs' = [envs EXCEPT ![ctx[t].env] = ctx[t].net]
  /\ Answer(t, "OK")
  /\ UNCHANGED <<daemonVars, label>>

-----------------------------------------------------------------------------
(* Start.                                                                  *)

CallStart(t, n) ==
  /\ phase[n] = "created"
  /\ \A u \in Threads : ctx[u].env # n
  /\ \/ /\ envs[n] # None
        /\ Serve(t, "start_probe", "Start", n, envs[n])
        /\ UNCHANGED told
     \/ /\ envs[n] = None /\ pc[t] = "idle"
        /\ told' = [told EXCEPT ![n] = "NOT_FOUND"]
        /\ UNCHANGED <<pc, ctx>>
  /\ UNCHANGED <<daemonVars, label, envs, phase>>

StartProbe(t) ==
  LET n == ctx[t].env IN
  /\ pc[t] = "start_probe"
  /\ \/ status[n] = "running" /\ Goto(t, "start_container")
     \/ status[n] = "stopped" /\ Answer(t, "FAILED_PRECONDITION")
     \/ status[n] = "absent" /\ Answer(t, RestErrorToGrpc("missing"))
     \/ Can("setup") /\ Answer(t, RestErrorToGrpc("lost"))
  /\ UNCHANGED <<daemonVars, label, envs>>

\* executor.start() and _read_env(), whose failures are swallowed.
StartContainer(t) ==
  LET n == ctx[t].env IN
  /\ pc[t] = "start_container"
  /\ \/ status[n] = "running" /\ Answer(t, "OK")
     \/ status[n] = "stopped" /\ Answer(t, RestErrorToGrpc("refused"))
     \/ status[n] = "absent" /\ Answer(t, RestErrorToGrpc("missing"))
     \/ Can("setup") /\ Answer(t, "INTERNAL")
     \/ Can("escape") /\ Answer(t, "UNKNOWN")
  /\ UNCHANGED <<daemonVars, label, envs>>

-----------------------------------------------------------------------------
(* Remove, and _discard, which Create calls: both run remove_instance and  *)
(* then _discard_network.                                                  *)

\* The record is popped under the lock.  The runner calls Remove when no
\* unary RPC for n is outstanding; a cancelled Start may still be running.
CallRemove(t, n) ==
  /\ phase[n] \in {"created", "failed", "removing", "removed"}
  /\ Can("impatient") \/ \A u \in Threads : ~WorksOn(u, n)
  /\ envs' = [envs EXCEPT ![n] = None]
  /\ \/ /\ envs[n] # None
        /\ Serve(t, "cleanup", "Remove", n, envs[n])
        /\ phase' = [phase EXCEPT ![n] = "removing"]
        /\ UNCHANGED told
     \/ /\ envs[n] = None /\ pc[t] = "idle"
        /\ phase' = [phase EXCEPT ![n] = "removed"]
        /\ told' = [told EXCEPT ![n] = "OK"]
        /\ UNCHANGED <<pc, ctx>>
  /\ UNCHANGED <<daemonVars, label>>

\* executor.cleanup() and services.cleanup(): REST errors are logged.
Cleanup(t) ==
  /\ pc[t] = "cleanup"
  /\ \/ Goto(t, "probe")
     \/ Can("escape") /\ Answer(t, "UNKNOWN")
  /\ UNCHANGED <<daemonVars, label, envs>>

\* remove_instance: GET .../state.
Probe(t) ==
  LET n == ctx[t].env IN
  /\ pc[t] = "probe"
  /\ \/ status[n] = "running" /\ Goto(t, "stop")
     \/ status[n] = "stopped" /\ Goto(t, "delete")
     \/ status[n] = "absent" /\ Goto(t, "unplug")
     \/ Can("teardown") /\ RemovalFailed(t, "lost")
  /\ UNCHANGED <<daemonVars, label, envs>>

\* An instance that stops is gone at once if it is ephemeral.
StopInstance(n) ==
  status' = [status EXCEPT ![n] = IF ephemeral[n] THEN "absent" ELSE "stopped"]

\* remove_instance: PUT .../state, waited for.  The operation fails if the
\* instance has been stopped since it was probed.
Stop(t) ==
  LET n == ctx[t].env IN
  /\ pc[t] = "stop"
  /\ \/ status[n] = "running" /\ StopInstance(n) /\ Goto(t, "delete")
     \/ status[n] = "absent" /\ Goto(t, "unplug") /\ UNCHANGED status
     \/ status[n] = "stopped" /\ RemovalFailed(t, "refused") /\ UNCHANGED status
     \/ Can("teardown") /\ RemovalFailed(t, "lost") /\ UNCHANGED status
  /\ UNCHANGED <<op, nic, ephemeral, nets, label, envs>>

\* remove_instance: DELETE, refused while the create operation runs.
Delete(t) ==
  LET n == ctx[t].env IN
  /\ pc[t] = "delete"
  /\ \/ status[n] = "stopped" /\ op[n] # "pending" /\ Goto(t, "deleting")
     \/ status[n] = "absent" /\ Goto(t, "unplug")
     \/ /\ status[n] = "running" \/ (status[n] = "stopped" /\ op[n] = "pending")
        /\ RemovalFailed(t, "refused")
     \/ Can("teardown") /\ RemovalFailed(t, "lost")
  /\ UNCHANGED <<daemonVars, label, envs>>

\* The delete operation runs, and fails if somebody else's came first.
DeleteWait(t) ==
  LET n == ctx[t].env IN
  /\ pc[t] = "deleting"
  /\ status' = [status EXCEPT ![n] = "absent"]
  /\ \/ status[n] # "absent" /\ Goto(t, "unplug")
     \/ status[n] = "absent" /\ RemovalFailed(t, "refused")
     \/ Can("teardown") /\ RemovalFailed(t, "lost")
  /\ UNCHANGED <<op, nic, ephemeral, nets, label, envs>>

\* _discard_network: every failure is logged and forgotten.
Unplug(t) ==
  /\ pc[t] = "unplug"
  /\ \/ ~InUse(ctx[t].net) /\ nets' = nets \ {ctx[t].net}
     \/ (InUse(ctx[t].net) \/ Can("teardown")) /\ UNCHANGED nets
  /\ Answer(t, ctx[t].code)
  /\ UNCHANGED <<status, op, nic, ephemeral, label, envs>>

-----------------------------------------------------------------------------
(* What the daemon, the operator and the runner do meanwhile.              *)

\* The instance's record appears, and with it its hold on the network.
OpVisible(n) ==
  /\ op[n] = "pending" /\ status[n] = "absent" /\ nic[n] \in nets
  /\ status' = [status EXCEPT ![n] = "stopped"]
  /\ UNCHANGED <<op, nic, ephemeral, nets, label, envs, handlerVars>>

OpSucceeds(n) ==
  /\ op[n] = "pending" /\ status[n] = "stopped"
  /\ status' = [status EXCEPT ![n] = "running"]
  /\ op' = [op EXCEPT ![n] = "success"]
  /\ UNCHANGED <<nic, ephemeral, nets, label, envs, handlerVars>>

\* The operation fails and takes the instance back, unless only the boot
\* failed: then the instance stays.
OpFails(n) ==
  /\ op[n] = "pending"
  /\ op' = [op EXCEPT ![n] = "failure"]
  /\ \/ /\ Can("refuse") \/ (status[n] = "absent" /\ nic[n] \notin nets)
        /\ status' = [status EXCEPT ![n] = "absent"]
     \/ Can("boot") /\ status[n] = "stopped" /\ UNCHANGED status
  /\ UNCHANGED <<nic, ephemeral, nets, label, envs, handlerVars>>

OperatorStops(n) ==
  /\ Can("operator") /\ status[n] = "running"
  /\ StopInstance(n)
  /\ UNCHANGED <<op, nic, ephemeral, nets, label, envs, handlerVars>>

OperatorDeletes(n) ==
  /\ Can("operator") /\ status[n] # "absent" /\ op[n] # "pending"
  /\ status' = [status EXCEPT ![n] = "absent"]
  /\ UNCHANGED <<op, nic, ephemeral, nets, label, envs, handlerVars>>

\* The runner gives up on a Create; its handler keeps running.
GiveUp(n) ==
  /\ Can("impatient") /\ phase[n] = "creating"
  /\ phase' = [phase EXCEPT ![n] = "failed"]
  /\ UNCHANGED <<daemonVars, label, envs, pc, ctx, told>>

\* The plugin process dies and is started again with an empty _envs; calls
\* in flight end as UNAVAILABLE.
Restart ==
  /\ Can("restart")
  /\ envs' = [n \in Names |-> None]
  /\ pc' = [t \in Threads |-> "idle"]
  /\ ctx' = [t \in Threads |-> NoCall]
  /\ phase' = [n \in Names |-> IF phase[n] = "creating" THEN "failed" ELSE phase[n]]
  /\ told' = [n \in Names |-> IF \A t \in Threads : ctx[t].env # n THEN told[n]
                              ELSE "UNAVAILABLE"]
  /\ UNCHANGED <<daemonVars, label>>

-----------------------------------------------------------------------------
CreateStep(t) == CreateNetwork(t) \/ RejectEphemeral(t) \/ Launch(t) \/ LaunchWait(t)
                 \/ Setup(t) \/ Describe(t) \/ Record(t)
StartStep(t) == StartProbe(t) \/ StartContainer(t)
RemoveStep(t) == Cleanup(t) \/ Probe(t) \/ Stop(t) \/ Delete(t) \/ DeleteWait(t) \/ Unplug(t)
HandlerStep(t) == CreateStep(t) \/ StartStep(t) \/ RemoveStep(t)
DaemonStep(n) == OpVisible(n) \/ OpSucceeds(n) \/ OpFails(n)
Call(t, n) == RejectCreate(t, n) \/ CallCreate(t, n) \/ CallStart(t, n) \/ CallRemove(t, n)

Next ==
  \/ \E t \in Threads : HandlerStep(t)
  \/ \E n \in Names : DaemonStep(n) \/ OperatorStops(n) \/ OperatorDeletes(n) \/ GiveUp(n)
  \/ \E t \in Threads, n \in Names : Call(t, n)
  \/ Restart

Spec == Init /\ [][Next]_vars

\* A worker thread that can run does, and the daemon finishes the operations
\* it accepted.  Nobody has to call.
FairSpec ==
  /\ Spec
  /\ \A t \in Threads : WF_vars(HandlerStep(t))
  /\ \A n \in Names : WF_vars(DaemonStep(n))

-----------------------------------------------------------------------------
(* What the runner and the operator of the host rely on.                   *)

TypeOK ==
  /\ status \in [Names -> {"absent", "stopped", "running"}]
  /\ op \in [Names -> {"none", "pending", "success", "failure"}]
  /\ nic \in [Names -> Networks \cup {None}]
  /\ ephemeral \in [Names -> BOOLEAN]
  /\ nets \subseteq Networks
  /\ label \in [Networks -> Names \cup {None}]
  /\ envs \in [Names -> Networks \cup {None}]
  /\ pc \in [Threads -> {"idle"} \cup Building \cup TearingDown \cup Starting]
  /\ ctx \in [Threads -> [rpc : {"none", "Create", "Start", "Remove"},
                          env : Names \cup {None}, net : Networks \cup {None},
                          code : Codes]]
  /\ phase \in [Names -> Phases]
  /\ told \in [Names -> Codes]

\* At most one handler makes or takes down an environment, and none while the
\* environment is on record: Create records last, Remove pops first, under
\* the lock.  Holds whatever fails, and when the runner repeats a Remove that
\* is still running.
SoleHandler ==
  \A n \in Names, t \in Threads : WorksOn(t, n) =>
    /\ envs[n] = None
    /\ \A u \in Threads : WorksOn(u, n) => u = t

\* No two jobs' instances ever share a network, and no two records hold one:
\* every Create makes its own bridge.
Isolation ==
  \A m, n \in Names : m # n =>
    /\ status[m] # "absent" /\ status[n] # "absent" => nic[m] # nic[n]
    /\ envs[m] # None => envs[m] # envs[n]

\* An environment on record is whole: its instance runs, on the network the
\* record names, and that network exists.  Holds unless an operator
\* interferes, whatever else fails, in whatever order calls overlap.
RecordBacked ==
  \A n \in Names : envs[n] # None =>
    status[n] = "running" /\ nic[n] = envs[n] /\ envs[n] \in nets

\* Every instance and every create operation under way belongs to a record,
\* which Remove will find, or to a handler still at work.
InstancesOwned ==
  \A n \in Names : status[n] # "absent" \/ op[n] = "pending" =>
    \/ envs[n] = nic[n]
    \/ \E t \in Threads : WorksOn(t, n) /\ ctx[t].net = nic[n]

\* So does every network.
NetworksOwned ==
  \A w \in nets :
    \/ \E n \in Names : envs[n] = w
    \/ \E t \in Threads, n \in Names : WorksOn(t, n) /\ ctx[t].net = w

\* Whatever the plugin has on the host belongs to a record or to a handler.
NothingOrphaned == InstancesOwned /\ NetworksOwned

\* Nothing of n is left on the host, and nothing is on its way.
HostClean(n) ==
  /\ status[n] = "absent" /\ op[n] # "pending"
  /\ \A w \in nets : label[w] # n

\* A Create or Remove that had an environment in hand ends with it on record or
\* with nothing of it left, whichever step failed, and even if the runner has
\* given up on the call or repeats a Remove that is still running.
EndsRecordedOrGone ==
  [][\A t \in Threads, n \in Names :
       WorksOn(t, n) /\ pc'[t] = "idle" => envs'[n] # None \/ HostClean(n)']_vars

\* A Create that failed left nothing behind, for a runner that waits for its
\* answers.
FailedMeansGone == \A n \in Names : phase[n] = "failed" => HostClean(n)

\* A Remove that answered OK left nothing behind, for the same runner.
RemovedMeansGone == \A n \in Names : phase[n] = "removed" => HostClean(n)

\* Create has failed, its operation has ended and no handler works on n any
\* more, but something of n is on the host: it stays there.
LeftBehind(n) ==
  /\ phase[n] = "failed" /\ op[n] # "pending" /\ \A t \in Threads : ~WorksOn(t, n)
  /\ ~HostClean(n)

\* What the runner was told about the environments that left something behind.
Leaks == {told[n] : n \in {m \in Names : LeftBehind(m)}}

\* The comments at server.py:624-626 and 634-645 say that a failed Create leaves
\* nothing.  This says far less: that one of four ways to fail (a typo in an
\* option, a launch whose connection breaks, one that takes too long, an
\* exception nobody catches) does.  A behaviour that refutes it has something
\* left behind in each of them.
SomeFailureIsClean ==
  ~({"INVALID_ARGUMENT", "INTERNAL", "DEADLINE_EXCEEDED", "UNKNOWN"} \subseteq Leaks)

\* The instance is gone once a Remove has answered OK, even if an earlier
\* Remove of the same environment failed.
RemovedMeansInstanceGone ==
  \A n \in Names : phase[n] = "removed" => status[n] = "absent"

\* A failed Create and an answered Remove leave no instance and no operation
\* that makes one, whatever they leave besides.
OverMeansInstanceGone ==
  \A n \in Names : phase[n] \in {"failed", "removed"} => status[n] = "absent" /\ op[n] # "pending"

\* How many steps a call has still before it, at most.
StepsLeft == [
  network |-> 12, launch |-> 11, launching |-> 10, setup |-> 9, describe |-> 8, record |-> 7,
  cleanup |-> 6, probe |-> 5, stop |-> 4, delete |-> 3, deleting |-> 2, unplug |-> 1,
  start_probe |-> 2, start_container |-> 1, idle |-> 0]

\* No handler goes round in circles: every step it takes brings its call nearer
\* to the end, whatever the daemon answers, and nobody else moves it, save that
\* a restart ends it.
HandlersDescend ==
  [][\A t \in Threads :
       /\ HandlerStep(t) => StepsLeft[pc'[t]] < StepsLeft[pc[t]]
       /\ pc[t] # "idle" /\ ~HandlerStep(t) => pc'[t] \in {pc[t], "idle"}]_vars

\* The one wait of a handler is for its own create operation, which has ended or
\* can still end: no fault and nobody's interference takes it away or leaves it
\* stuck half-way, with an instance that runs before its operation is over.
WaitsCanEnd ==
  /\ \A t \in Threads : pc[t] = "launching" =>
       op[ctx[t].env] # "none" /\ nic[ctx[t].env] = ctx[t].net
  /\ \A n \in Names : op[n] = "pending" => status[n] # "running"

\* Every call is answered, whatever fails: no wait in a handler is endless
\* when the daemon finishes its operations.
CallsAnswered == \A t \in Threads : pc[t] # "idle" ~> pc[t] = "idle"

\* An environment whose Remove has begun is gone from the host in the end.
RemovalCompletes == \A n \in Names : phase[n] = "removing" ~> HostClean(n)

-----------------------------------------------------------------------------
(* The promise of JobEnvironment, as this module keeps it.                 *)

StageOf(n) ==
  CASE phase[n] = "new" -> "none"
    [] envs[n] # None -> "usable"
    [] \E t \in Threads : ctx[t].env = n /\ ctx[t].rpc = "Create" -> "building"
    [] \E t \in Threads : ctx[t].env = n /\ ctx[t].rpc = "Remove" -> "ending"
    [] OTHER -> "over"

AssetsOf(n) ==
  CASE status[n] = "running" /\ nic[n] \in nets /\ label[nic[n]] = n -> "everything"
    [] HostClean(n) -> "nothing"
    [] OTHER -> "some"

Promise == INSTANCE JobEnvironment WITH
  stage <- [n \in Names |-> StageOf(n)],
  assets <- [n \in Names |-> AssetsOf(n)]

\* The handlers implement the promise, safety and progress.
KeepsPromise == Promise!FairSpec

=============================================================================
