------------------------------ MODULE Services ------------------------------
(***************************************************************************)
(* The containers inside one job's instance: the services of the workflow, *)
(* the network they share with a containerised job, and the job container  *)
(* (executor.py), as Create makes them, Start starts the last of them and  *)
(* Remove takes them down before the instance (server.py).                 *)
(*                                                                         *)
(* One action is one command of the container runtime, run by an exec in   *)
(* the instance.  Start runs in a thread of its own: a Start the runner    *)
(* has given up on may overlap Remove.  How the instance itself comes and  *)
(* goes, and what happens when that fails, is in Environments.             *)
(***************************************************************************)
EXTENDS Naturals, Sequences

CONSTANTS
  Names,        \* what a workflow may call its services
  Alias,        \* [Names -> host names]: Service.alias
  MaxServices,  \* bound: services of one job
  None,         \* no container
  Faults        \* the kinds of fault this behaviour may show

FaultKinds == {
  "missing",  \* the instance has no container runtime
  "image",    \* an image cannot be pulled
  "run",      \* the runtime refuses a network or a container, or cannot start it
  "lost",     \* the connection breaks during an exec
  "stuck" }   \* the runtime cannot remove a container

Can(kind) == kind \in Faults

\* A container's name is the instance's, a dash, and one of these.
JobName == "job"
Suffixes == {JobName} \cup {Alias[n] : n \in Names}

\* A container: of service number of, or of the job as number 0.
Boxes == [of : 0..MaxServices, alias : Suffixes \cup {None}, attached : BOOLEAN,
          state : {"created", "running", "exited"}]

ASSUME ServicesAssumption ==
  /\ MaxServices \in Nat
  /\ None \notin Suffixes
  /\ None \notin Boxes
  /\ Faults \subseteq FaultKinds

VARIABLES
  services,    \* CreateRequest.services: the names, in order
  inContainer, \* CreateRequest.image is set: the job runs in a container
  runtime,     \* there is a container runtime in the instance
  instance,    \* the instance exists
  network,     \* in the instance: the services' network exists
  box,         \* in the instance: the container of each name
  containers,  \* plugin: ServiceSet.containers
  jobBox,      \* plugin: ContainerExecutor.container
  recorded,    \* plugin: the environment is in _envs
  pc,          \* plugin: what the Create or Remove handler does next
  turn,        \* plugin: the service its loop has come to
  startPc,     \* plugin: what the Start handler does next
  smooth       \* history: every command of the teardown has worked so far

requestVars == <<services, inContainer, runtime>>
hostVars == <<instance, network, box>>
pluginVars == <<containers, jobBox, recorded, pc, turn>>
vars == <<requestVars, hostVars, pluginVars, startPc, smooth>>

Building == {"launch", "resolve", "services", "network", "pull", "run",
             "pull_job", "create_job", "record", "discard"}
Ending == {"rm_job", "rm_service", "rm_network", "rm_instance"}

Box(of, alias, attached, state) ==
  [of |-> of, alias |-> alias, attached |-> attached, state |-> state]

InState(b, state) == Box(b.of, b.alias, b.attached, state)

NoBoxes == [s \in Suffixes |-> None]

Init ==
  /\ services \in UNION {[1..k -> Names] : k \in 0..MaxServices}
  /\ inContainer \in BOOLEAN
  /\ runtime \in (IF Can("missing") THEN BOOLEAN ELSE {TRUE})
  /\ instance = FALSE /\ network = FALSE /\ box = NoBoxes
  /\ containers = <<>> /\ jobBox = None /\ recorded = FALSE
  /\ pc = "new" /\ turn = 1 /\ startPc = "idle" /\ smooth = TRUE

Goto(step) == pc' = step /\ UNCHANGED <<containers, jobBox, recorded, turn>>

\* The name of the container of the service the loop has come to.
Current == Alias[services[turn]]

\* The job container, which joins the services' network if there is one.
NewJobBox == Box(0, None, services # <<>>, "created")

\* A command that would make container s fails for its name, or for another
\* reason, or its answer is lost; in the last two cases it may have made it.
Fails(s, b) ==
  \/ (box[s] # None \/ Can("run") \/ Can("lost")) /\ UNCHANGED box
  \/ /\ box[s] = None /\ (Can("run") \/ Can("lost"))
     /\ box' = [box EXCEPT ![s] = b]

-----------------------------------------------------------------------------
(* Slips that a change of the code could make; each breaks a property.     *)

\* The loop over the services is entered one too low.
RemoveJob_FromZero ==
  /\ pc = "rm_job"
  /\ box' = [box EXCEPT ![JobName] = None]
  /\ pc' = "rm_service" /\ turn' = 0
  /\ UNCHANGED <<requestVars, instance, network, containers, jobBox, recorded, startPc, smooth>>

\* The exit code of `run` is not looked at.
Run_Unchecked ==
  /\ pc = "run"
  /\ box' = IF box[Current] = None
            THEN [box EXCEPT ![Current] = Box(turn, Current, inContainer, "running")] ELSE box
  /\ containers' = Append(containers, Current)
  /\ turn' = turn + 1
  /\ pc' = IF turn < Len(services) THEN "pull" ELSE "pull_job"
  /\ UNCHANGED <<requestVars, instance, network, jobBox, recorded, startPc, smooth>>

\* The services are removed before the job container.
CallRemove_ServicesFirst ==
  /\ recorded
  /\ recorded' = FALSE
  /\ pc' = "rm_service" /\ turn' = 1 /\ smooth' = TRUE
  /\ UNCHANGED <<requestVars, hostVars, containers, jobBox, startPc>>

\* The exit code of `create` is not looked at.
CreateJob_Unchecked ==
  /\ pc = "create_job"
  /\ pc' = "record"
  /\ jobBox' = JobName
  /\ box' = IF box[JobName] = None
            THEN [box EXCEPT ![JobName] = NewJobBox] ELSE box
  /\ UNCHANGED <<requestVars, instance, network, containers, recorded, turn, startPc, smooth>>

-----------------------------------------------------------------------------
(* Create.                                                                 *)

CallCreate ==
  /\ pc = "new"
  /\ Goto("launch")
  /\ UNCHANGED <<requestVars, hostVars, startPc, smooth>>

\* What Environments does in many steps, or fails to do.
Launch ==
  /\ pc = "launch"
  /\ \/ instance' = TRUE /\ Goto("resolve")
     \/ UNCHANGED instance /\ Goto("done")
  /\ UNCHANGED <<requestVars, network, box, startPc, smooth>>

\* resolve() refuses a containerised job without a runtime.
Resolve ==
  /\ pc = "resolve"
  /\ Goto(IF inContainer /\ ~runtime THEN "discard" ELSE "services")
  /\ UNCHANGED <<requestVars, hostVars, startPc, smooth>>

\* _start_services: only a containerised job has a network with its services.
StartServices ==
  /\ pc = "services"
  /\ Goto(IF services = <<>> THEN "pull_job"
          ELSE IF ~runtime THEN "discard"
          ELSE IF inContainer THEN "network" ELSE "pull")
  /\ UNCHANGED <<requestVars, hostVars, startPc, smooth>>

CreateNetwork ==
  /\ pc = "network"
  /\ \/ network' = TRUE /\ Goto("pull")
     \/ Can("run") /\ UNCHANGED network /\ Goto("discard")
     \/ Can("lost") /\ network' \in BOOLEAN /\ Goto("discard")
  /\ UNCHANGED <<requestVars, instance, box, startPc, smooth>>

Pull ==
  /\ pc = "pull"
  /\ \/ Goto("run")
     \/ (Can("image") \/ Can("lost")) /\ Goto("discard")
  /\ UNCHANGED <<requestVars, hostVars, startPc, smooth>>

\* `run --detach --name <instance>-<alias>`, with the alias on the network.
\* Only a service that came up is appended to containers.
Run ==
  /\ pc = "run"
  /\ \/ /\ box[Current] = None
        /\ box' = [box EXCEPT ![Current] = Box(turn, Current, inContainer, "running")]
        /\ containers' = Append(containers, Current)
        /\ turn' = turn + 1
        /\ pc' = IF turn < Len(services) THEN "pull" ELSE "pull_job"
        /\ UNCHANGED <<jobBox, recorded>>
     \/ Fails(Current, Box(turn, Current, inContainer, "created")) /\ Goto("discard")
  /\ UNCHANGED <<requestVars, instance, network, startPc, smooth>>

\* A job on the instance has no container to create.
PullJob ==
  /\ pc = "pull_job"
  /\ \/ Goto(IF inContainer THEN "create_job" ELSE "record")
     \/ inContainer /\ (Can("image") \/ Can("lost")) /\ Goto("discard")
  /\ UNCHANGED <<requestVars, hostVars, startPc, smooth>>

CreateJob ==
  /\ pc = "create_job"
  /\ \/ /\ box[JobName] = None
        /\ box' = [box EXCEPT ![JobName] = NewJobBox]
        /\ jobBox' = JobName
        /\ pc' = "record"
        /\ UNCHANGED <<containers, recorded, turn>>
     \/ Fails(JobName, NewJobBox) /\ Goto("discard")
  /\ UNCHANGED <<requestVars, instance, network, startPc, smooth>>

\* The instance is described and recorded.
Record ==
  /\ pc = "record"
  /\ \/ pc' = "idle" /\ recorded' = TRUE /\ UNCHANGED <<containers, jobBox, turn>>
     \/ Can("lost") /\ Goto("discard")
  /\ UNCHANGED <<requestVars, hostVars, startPc, smooth>>

\* What is in the instance goes with it.
DropInstance == instance' = FALSE /\ network' = FALSE /\ box' = NoBoxes

\* _discard: any failure after the launch takes the whole instance away.
Discard ==
  /\ pc = "discard"
  /\ DropInstance /\ Goto("done")
  /\ UNCHANGED <<requestVars, startPc, smooth>>

-----------------------------------------------------------------------------
(* Start, and what happens to a service meanwhile.                         *)

CallStart ==
  /\ recorded /\ startPc = "idle"
  /\ startPc' = "start"
  /\ UNCHANGED <<requestVars, hostVars, pluginVars, smooth>>

\* `start`, on the record Start looked up, which Remove may have popped since.
\* It fails if the container or the instance is gone.
StartJob ==
  /\ startPc = "start"
  /\ \/ /\ jobBox # None /\ box[JobName] # None
        /\ box' = [box EXCEPT ![JobName] = InState(box[JobName], "running")]
     \/ /\ jobBox = None \/ box[JobName] = None \/ Can("run") \/ Can("lost")
        /\ UNCHANGED box
  /\ startPc' = "idle"
  /\ UNCHANGED <<requestVars, instance, network, pluginVars, smooth>>

\* A service's main process ends.
ServiceExits(s) ==
  /\ box[s] # None /\ box[s].of # 0 /\ box[s].state = "running"
  /\ box' = [box EXCEPT ![s] = InState(box[s], "exited")]
  /\ UNCHANGED <<requestVars, instance, network, pluginVars, startPc, smooth>>

-----------------------------------------------------------------------------
(* Remove.                                                                 *)

CallRemove ==
  /\ recorded
  /\ recorded' = FALSE
  /\ pc' = "rm_job" /\ turn' = 1 /\ smooth' = TRUE
  /\ UNCHANGED <<requestVars, hostVars, containers, jobBox, startPc>>

\* `rm --force` of container s; what it answers is not looked at.
Rm(s) ==
  \/ box' = [box EXCEPT ![s] = None] /\ UNCHANGED smooth
  \/ Can("stuck") /\ smooth' = FALSE /\ UNCHANGED box

\* The exec that should have run `rm --force` of s raises.
RmLost(s) ==
  /\ Can("lost") /\ smooth' = FALSE
  /\ UNCHANGED box \/ box' = [box EXCEPT ![s] = None]

\* executor.cleanup(): an error is logged and the services come next.
RemoveJob ==
  /\ pc = "rm_job"
  /\ IF jobBox # None THEN Rm(jobBox) \/ RmLost(jobBox) ELSE UNCHANGED <<box, smooth>>
  /\ Goto(IF services = <<>> THEN "rm_instance" ELSE "rm_service")
  /\ UNCHANGED <<requestVars, instance, network, startPc>>

\* services.cleanup(): an error is logged and ends it.
RemoveService ==
  /\ pc = "rm_service"
  /\ \/ /\ turn \in 1..Len(containers)
        /\ Rm(containers[turn])
        /\ turn' = turn + 1 /\ UNCHANGED <<pc, containers, jobBox, recorded>>
     \/ /\ turn \in 1..Len(containers)
        /\ RmLost(containers[turn]) /\ Goto("rm_instance")
     \/ /\ turn \notin 1..Len(containers)
        /\ Goto(IF inContainer THEN "rm_network" ELSE "rm_instance")
        /\ UNCHANGED <<box, smooth>>
  /\ UNCHANGED <<requestVars, instance, network, startPc>>

\* `network rm` fails while a container is attached, which nobody notices.
RemoveNetwork ==
  /\ pc = "rm_network"
  /\ \/ /\ network' = (network /\ \E s \in Suffixes : box[s] # None /\ box[s].attached)
        /\ UNCHANGED smooth
     \/ Can("lost") /\ smooth' = FALSE /\ UNCHANGED network
  /\ Goto("rm_instance")
  /\ UNCHANGED <<requestVars, instance, box, startPc>>

RemoveInstance ==
  /\ pc = "rm_instance"
  /\ DropInstance /\ Goto("done")
  /\ UNCHANGED <<requestVars, startPc, smooth>>

-----------------------------------------------------------------------------
CreateStep == Launch \/ Resolve \/ StartServices \/ CreateNetwork \/ Pull \/ Run
              \/ PullJob \/ CreateJob \/ Record \/ Discard
RemoveStep == RemoveJob \/ RemoveService \/ RemoveNetwork \/ RemoveInstance
HandlerStep == CreateStep \/ RemoveStep

Next == \/ CallCreate \/ CallStart \/ CallRemove
        \/ HandlerStep \/ StartJob
        \/ \E s \in Suffixes : ServiceExits(s)

Spec == Init /\ [][Next]_vars

\* A handler runs on: every exec of a runtime command ends.
FairSpec == Spec /\ WF_vars(HandlerStep) /\ WF_vars(StartJob)

-----------------------------------------------------------------------------
(* What a job relies on.                                                   *)

TypeOK ==
  /\ services \in Seq(Names) /\ Len(services) <= MaxServices
  /\ inContainer \in BOOLEAN /\ runtime \in BOOLEAN
  /\ instance \in BOOLEAN /\ network \in BOOLEAN
  /\ box \in [Suffixes -> Boxes \cup {None}]
  /\ containers \in Seq(Suffixes)
  /\ jobBox \in {None, JobName}
  /\ recorded \in BOOLEAN
  /\ pc \in {"new", "idle", "done"} \cup Building \cup Ending
  /\ turn \in 1..MaxServices + 1
  /\ startPc \in {"idle", "start"}
  /\ smooth \in BOOLEAN

\* The services a host name leads to from the job container.
Resolves(a) ==
  {box[s].of : s \in {r \in Suffixes : box[r] # None /\ box[r].attached /\ box[r].alias = a}}

\* Every service of the job has its container, attached to the network or not.
HasServices(attached) ==
  \A i \in 1..Len(services) : \E s \in Suffixes :
    box[s] # None /\ box[s].of = i /\ box[s].attached = attached

\* In an environment on record every service's host name leads to that service
\* and to no other, the job container is on the network it leads over, and the
\* services of a job on the instance have their containers.  So names that
\* collapse to one alias, or to the job container's name, never get this far.
ServicesReachable ==
  recorded =>
    /\ HasServices(inContainer)
    /\ inContainer =>
         /\ box[JobName] # None /\ box[JobName].of = 0
         /\ services # <<>> => network /\ box[JobName].attached
         /\ \A i \in 1..Len(services) : Resolves(Alias[services[i]]) = {i}

\* When Remove comes to the instance and no command of the teardown has failed,
\* no container and no network is left in it: the plugin kept track of all it
\* made and took it down in an order the runtime accepts, even while a Start
\* was still at work.
TakenDown ==
  pc = "rm_instance" /\ smooth => box = NoBoxes /\ ~network

-----------------------------------------------------------------------------
(* The promise of JobEnvironment, down to what is in the instance.         *)

Whole ==
  /\ instance
  /\ HasServices(inContainer)
  /\ inContainer => box[JobName] # None /\ box[JobName].of = 0
  /\ inContainer /\ services # <<>> => network

Stage ==
  CASE pc = "new" -> "none"
    [] recorded -> "usable"
    [] pc \in Building -> "building"
    [] pc \in Ending -> "ending"
    [] OTHER -> "over"

Assets == IF Whole THEN "everything" ELSE IF instance THEN "some" ELSE "nothing"

Promise == INSTANCE JobEnvironment WITH
  Names <- {"environment"},
  stage <- [n \in {"environment"} |-> Stage],
  assets <- [n \in {"environment"} |-> Assets]

\* Create offers an environment only with its services and job container
\* complete, nothing in it goes before Remove, and whichever command fails,
\* both handlers end, with everything there or nothing.
KeepsPromise == Promise!FairSpec

=============================================================================
