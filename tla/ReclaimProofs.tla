---------------------------- MODULE ReclaimProofs ----------------------------
(***************************************************************************)
(* Proofs about Environments: what is reclaimed.  As long as the only      *)
(* faults are those the handlers clean up after, nothing on the host is    *)
(* ever without a record or a handler, and a job whose Create failed or    *)
(* whose Remove succeeded has left nothing behind.                         *)
(***************************************************************************)
EXTENDS EnvironmentsProofs

USE EnvironmentsAssumption DEF Codes, Phases, Building, TearingDown, Starting

\* What a handler knows of the host when no call of a teardown fails and
\* nobody else touches the instance: the network it is about to make is not
\* there, a failed launch has left no instance, a teardown starts when the
\* create operation is over, and each of its steps finds the instance as the
\* step before left it.
Teardown(t) ==
  LET n == ctx[t].env IN
  /\ pc[t] = "network" => ctx[t].net \notin nets
  /\ pc[t] = "launching" /\ op[n] = "failure" => status[n] = "absent"
  /\ pc[t] \in TearingDown => op[n] # "pending"
  /\ pc[t] = "stop" => status[n] = "running"
  /\ pc[t] = "delete" => status[n] # "running"
  /\ pc[t] = "deleting" => status[n] = "stopped"
  /\ pc[t] = "unplug" => status[n] = "absent"

Reclaiming ==
  /\ \A t \in Threads : ctx[t].rpc \in {"Create", "Remove"} => Teardown(t)
  /\ InstancesOwned

TInv == Inv /\ Grounded /\ Reclaiming
KInv == TInv /\ NetworksOwned

\* The faults the handlers clean up after, and those with two more that may cost
\* a network.
Benign == Faults \subseteq {"refuse", "setup", "impatient"}
Tame == Faults \subseteq {"refuse", "setup", "impatient", "network_lost", "typo"}

LEMMA BenignIsTame == Benign => Tame
BY DEF Benign, Tame

LEMMA OwnerIsWorker ==
  ASSUME TInv, NEW t \in Threads, NEW n \in Names, WorksOn(t, n)
  PROVE  status[n] # "absent" \/ op[n] = "pending" => nic[n] = ctx[t].net
<1> SUFFICES ASSUME status[n] # "absent" \/ op[n] = "pending"
             PROVE  nic[n] = ctx[t].net
  OBVIOUS
<1>1. envs[n] = None /\ nic[n] \in Networks
  BY DEF TInv, Inv, SoleHandler, Labels
<1>2. PICK u \in Threads : WorksOn(u, n) /\ ctx[u].net = nic[n]
  BY <1>1 DEF TInv, Reclaiming, InstancesOwned
<1>. QED BY <1>2 DEF TInv, Inv, SoleHandler

\* In such a behaviour a teardown never fails half-way.
LEMMA NoRemovalFailure ==
  ASSUME Tame, TInv, NEW t \in Threads, HandlerStep(t), ctx[t].rpc \in {"Create", "Remove"}
  PROVE  /\ Probe(t) => pc'[t] \in {"stop", "delete", "unplug"}
         /\ Stop(t) => pc'[t] \in {"delete", "unplug"}
         /\ Delete(t) => pc'[t] \in {"deleting", "unplug"}
         /\ DeleteWait(t) => pc'[t] = "unplug"
         /\ Cleanup(t) => pc'[t] = "probe"
         /\ Unplug(t) => nets' = nets \ {ctx[t].net}
<1> USE DEF TInv, Inv, Tame, Can
<1>1. Teardown(t) /\ ctx[t].env \in Names /\ ctx[t].net \in Networks
      /\ label[ctx[t].net] = ctx[t].env
  BY DEF Reclaiming, CallShape, Labels
<1>2. pc \in [Threads -> {"idle"} \cup Building \cup TearingDown \cup Starting]
  BY DEF TypeOK
<1>3. /\ Probe(t) => pc'[t] \in {"stop", "delete", "unplug"}
      /\ Cleanup(t) => pc'[t] = "probe"
  BY <1>1, <1>2 DEF Probe, Cleanup, Goto
<1>4. Stop(t) => pc'[t] \in {"delete", "unplug"}
  BY <1>1, <1>2 DEF Stop, Goto, Teardown
<1>5. Delete(t) => pc'[t] \in {"deleting", "unplug"}
  BY <1>1, <1>2 DEF Delete, Goto, Teardown
<1>6. DeleteWait(t) => pc'[t] = "unplug"
  BY <1>1, <1>2 DEF DeleteWait, Goto, Teardown
<1>7. Unplug(t) => nets' = nets \ {ctx[t].net}
  BY <1>1 DEF Unplug, InUse, Teardown, Labels
<1>. QED BY <1>3, <1>4, <1>5, <1>6, <1>7

\* The steps before a teardown: where they lead and what they find.
LEMMA BuildingStep ==
  ASSUME Tame, TInv, NEW t \in Threads, CreateStep(t)
  PROVE  LET n == ctx[t].env IN
         /\ UNCHANGED status
         /\ pc'[t] \in TearingDown =>
              /\ pc'[t] \in {"probe", "unplug"} /\ op'[n] # "pending"
              /\ pc'[t] = "unplug" => status[n] = "absent"
         /\ pc'[t] = "launching" => op'[n] = "pending"
         /\ pc'[t] # "network"
<1> USE DEF TInv, Inv, Tame, Can, daemonVars
<1>1. /\ ctx[t].rpc = "Create" /\ ctx[t].env \in Names /\ pc \in [Threads -> {"idle"} \cup Building \cup TearingDown \cup Starting]
      /\ Teardown(t) /\ Knows(t)
  BY CreateStepLocal DEF Reclaiming, Grounded, CallShape, TypeOK
<1>2. op[ctx[t].env] = "none" => status[ctx[t].env] = "absent"
  BY <1>1 DEF Labels
<1>3. CASE CreateNetwork(t) \/ RejectEphemeral(t) \/ Record(t)
  BY <1>1, <1>3 DEF CreateNetwork, RejectEphemeral, Record, Goto, Answer
<1>4. CASE Launch(t)
  BY <1>1, <1>2, <1>4 DEF Launch, Goto, GotoFailing, Knows, TypeOK
<1>5. CASE LaunchWait(t)
  BY <1>1, <1>5 DEF LaunchWait, Goto, GotoFailing, Teardown
<1>6. CASE Setup(t) \/ Describe(t)
  BY <1>1, <1>6 DEF Setup, Describe, Goto, GotoFailing, Knows
<1>. QED BY <1>3, <1>4, <1>5, <1>6 DEF CreateStep

LEMMA RemovingStep ==
  ASSUME Tame, TInv, NEW t \in Threads, RemoveStep(t)
  PROVE  LET n == ctx[t].env IN
         /\ UNCHANGED op /\ op[n] # "pending"
         /\ pc'[t] \in {"idle", "probe", "stop", "delete", "deleting", "unplug"}
         /\ pc'[t] = "stop" => status'[n] = "running"
         /\ pc'[t] = "delete" => status'[n] # "running"
         /\ pc'[t] = "deleting" => status'[n] = "stopped"
         /\ pc'[t] = "unplug" => status'[n] = "absent"
<1> USE DEF TInv, Inv, Tame, Can, daemonVars
<1>1. /\ ctx[t].rpc \in {"Create", "Remove"} /\ ctx[t].env \in Names /\ pc[t] \in TearingDown
      /\ pc \in [Threads -> {"idle"} \cup Building \cup TearingDown \cup Starting]
      /\ status \in [Names -> {"absent", "stopped", "running"}]
      /\ Teardown(t)
  BY RemoveStepLocal
  DEF Reclaiming, CallShape, TypeOK, RemoveStep, Cleanup, Probe, Stop, Delete, DeleteWait, Unplug
<1>2. CASE Cleanup(t) \/ Probe(t)
  BY <1>1, <1>2 DEF Cleanup, Probe, Goto, Teardown
<1>3. CASE Stop(t)
  BY <1>1, <1>3 DEF Stop, StopInstance, Goto, Teardown
<1>4. CASE Delete(t)
  BY <1>1, <1>4 DEF Delete, Goto, Teardown
<1>5. CASE DeleteWait(t)
  BY <1>1, <1>5 DEF DeleteWait, Goto, Teardown
<1>6. CASE Unplug(t)
  BY <1>1, <1>6 DEF Unplug, Answer, Teardown
<1>. QED BY <1>2, <1>3, <1>4, <1>5, <1>6 DEF RemoveStep

LEMMA TeardownSelf ==
  ASSUME Tame, TInv, NEW t \in Threads, HandlerStep(t), ctx'[t].rpc \in {"Create", "Remove"}
  PROVE  Teardown(t)'
<1> USE DEF TInv, Inv
<1>1. MovesOnly(t)
  BY HandlerStepLocal DEF Local
<1>2. /\ ctx'[t].env = ctx[t].env /\ ctx[t].rpc \in {"Create", "Remove"}
      /\ pc'[t] # "idle"
  BY <1>1 DEF MovesOnly, Finishes, Continues, StepsOf, NoCall, Context
<1>3. CASE CreateStep(t)
  BY <1>2, <1>3, BuildingStep DEF Teardown
<1>4. CASE RemoveStep(t)
  BY <1>2, <1>4, RemovingStep DEF Teardown
<1>. QED BY <1>2, <1>3, <1>4, StartStepLocal DEF HandlerStep

\* The environments of two workers differ, and so do their networks.
LEMMA TeardownOther ==
  ASSUME TInv, NEW t \in Threads, HandlerStep(t),
         NEW u \in Threads, u # t, ctx'[u].rpc \in {"Create", "Remove"}
  PROVE  Teardown(u)'
<1> USE DEF TInv, Inv
<1>1. MovesOnly(t) /\ TouchesOwn(t)
  BY HandlerStepLocal DEF Local
<1>2. /\ ctx'[u] = ctx[u] /\ pc'[u] = pc[u] /\ Teardown(u)
      /\ ctx[u].env \in Names /\ ctx[u].net \in Networks
  BY <1>1 DEF MovesOnly, Reclaiming, CallShape
<1>3. CASE ctx[t].rpc \in {"Create", "Remove"}
  <2>1. ctx[t].env # ctx[u].env
    BY <1>2, <1>3 DEF SoleHandler, WorksOn
  <2>2. ctx[t].net # ctx[u].net
    BY <1>2, <1>3, <2>1 DEF Labels
  <2>. QED BY <1>1, <1>2, <2>1, <2>2 DEF TouchesOwn, Teardown
<1>4. CASE ctx[t].rpc \notin {"Create", "Remove"}
  BY <1>1, <1>2, <1>4 DEF TouchesOwn, Teardown
<1>. QED BY <1>3, <1>4

\* A worker that ends its call leaves a record, or no instance; in a benign
\* behaviour no network either.
LEMMA EndsClean ==
  ASSUME Tame, TInv, NEW t \in Threads, HandlerStep(t),
         ctx[t].rpc \in {"Create", "Remove"}, pc'[t] = "idle"
  PROVE  LET n == ctx[t].env IN
         \/ envs'[n] = ctx[t].net /\ nic'[n] = ctx[t].net
         \/ /\ status'[n] = "absent" /\ op'[n] # "pending"
            /\ Benign => ctx[t].net \notin nets'
<1> USE DEF TInv, Inv, Tame, Can, daemonVars
<1>1. /\ ctx[t].env \in Names /\ Teardown(t)
      /\ pc \in [Threads -> {"idle"} \cup Building \cup TearingDown \cup Starting]
      /\ envs \in [Names -> Networks \cup {None}]
      /\ ctx[t].rpc = "Create" => Knows(t)
  BY DEF Reclaiming, Grounded, CallShape, TypeOK
<1>2. op[ctx[t].env] = "none" => status[ctx[t].env] = "absent"
  BY <1>1 DEF Labels
<1>3. CASE CreateNetwork(t)
  <2>1. ctx[t].rpc = "Create" /\ pc[t] = "network"
    BY <1>3, CreateStepLocal DEF CreateStep, CreateNetwork
  <2>. QED BY <1>1, <1>2, <1>3, <2>1 DEF CreateNetwork, Goto, Knows, Teardown, Benign
<1>4. CASE RejectEphemeral(t)
  <2>1. ctx[t].rpc = "Create" /\ pc[t] = "launch" /\ ~Benign
    BY <1>4, CreateStepLocal DEF CreateStep, RejectEphemeral, Benign
  <2>. QED BY <1>1, <1>2, <1>4, <2>1 DEF RejectEphemeral, Knows
<1>5. CASE Record(t)
  <2>1. ctx[t].rpc = "Create" /\ pc[t] = "record"
    BY <1>5, CreateStepLocal DEF CreateStep, Record
  <2>. QED BY <1>1, <1>5, <2>1 DEF Record, Knows
<1>6. CASE Unplug(t)
  BY <1>1, <1>6, NoRemovalFailure DEF Unplug, Teardown
<1>7. CASE Cleanup(t) \/ Probe(t) \/ Stop(t) \/ Delete(t) \/ DeleteWait(t)
  BY <1>7, NoRemovalFailure
<1>8. CASE Launch(t) \/ LaunchWait(t) \/ Setup(t) \/ Describe(t)
  BY <1>1, <1>8 DEF Launch, LaunchWait, Setup, Describe, Goto, GotoFailing
<1>. QED
  BY <1>3, <1>4, <1>5, <1>6, <1>7, <1>8, StartStepLocal
  DEF HandlerStep, CreateStep, RemoveStep

-----------------------------------------------------------------------------
(* Every step preserves Reclaiming, and in a benign behaviour              *)
(* NetworksOwned.                                                          *)

\* A step of one thread takes nothing from what others work on.
LEMMA OthersKeepWorking ==
  ASSUME Inv, NEW t \in Threads, HandlerStep(t), NEW u \in Threads, u # t, NEW n \in Names,
         WorksOn(u, n)
  PROVE  WorksOn(u, n)' /\ ctx'[u].net = ctx[u].net
  BY HandlerStepLocal DEF Inv, Local, MovesOnly, WorksOn

\* A worker that goes on goes on with its environment and its network.
LEMMA KeepsWorking ==
  ASSUME Inv, NEW t \in Threads, HandlerStep(t), NEW n \in Names, WorksOn(t, n),
         pc'[t] # "idle"
  PROVE  WorksOn(t, n)' /\ ctx'[t].net = ctx[t].net
  BY HandlerStepLocal DEF Inv, Local, MovesOnly, Finishes, Continues, WorksOn

LEMMA HandlerStepOwned ==
  ASSUME Tame, TInv, NEW t \in Threads, HandlerStep(t)
  PROVE  InstancesOwned'
<1> USE DEF TInv, Inv
<1>1. TouchesOwn(t) /\ InstancesOwned
  BY HandlerStepLocal DEF Local, Reclaiming
<1>2. \A u \in Threads, n \in Names : u # t /\ WorksOn(u, n) =>
        WorksOn(u, n)' /\ ctx'[u].net = ctx[u].net
  BY OthersKeepWorking
<1>3. CASE ctx[t].rpc \notin {"Create", "Remove"}
  BY <1>1, <1>2, <1>3 DEF TouchesOwn, InstancesOwned, WorksOn
<1>4. CASE ctx[t].rpc \in {"Create", "Remove"}
  <2> DEFINE me == ctx[t].env
             mine == ctx[t].net
  <2>1. me \in Names /\ WorksOn(t, me) /\ envs[me] = None
    BY <1>4 DEF CallShape, WorksOn, SoleHandler
  <2>2. ASSUME NEW n \in Names, n # me, status'[n] # "absent" \/ op'[n] = "pending"
        PROVE  \/ envs'[n] = nic'[n]
               \/ \E u \in Threads : WorksOn(u, n)' /\ ctx'[u].net = nic'[n]
    <3>1. \/ envs[n] = nic[n]
          \/ \E u \in Threads : WorksOn(u, n) /\ ctx[u].net = nic[n]
      BY <1>1, <2>2 DEF TouchesOwn, InstancesOwned
    <3>2. ~WorksOn(t, n)
      BY <2>2 DEF WorksOn
    <3>. QED BY <1>1, <1>2, <2>2, <3>1, <3>2 DEF TouchesOwn
  <2>3. CASE pc'[t] # "idle"
    <3>1. (\A n \in Names : n = me => WorksOn(t, n)') /\ ctx'[t].net = mine
      BY <2>1, <2>3, KeepsWorking
    <3>2. status'[me] # "absent" \/ op'[me] = "pending" => nic'[me] = mine
      <4>1. status[me] # "absent" \/ op[me] = "pending" => nic[me] = mine
        BY <2>1, OwnerIsWorker
      <4>. QED BY <1>1, <4>1 DEF TouchesOwn
    <3>. QED BY <2>2, <3>1, <3>2 DEF InstancesOwned
  <2>4. CASE pc'[t] = "idle"
    <3>1. \/ envs'[me] = mine /\ nic'[me] = mine
          \/ status'[me] = "absent" /\ op'[me] # "pending"
      BY <1>4, <2>4, EndsClean
    <3>. QED BY <2>1, <2>2, <3>1 DEF InstancesOwned
  <2>. QED BY <2>3, <2>4
<1>. QED BY <1>3, <1>4

LEMMA HandlerStepNetworks ==
  ASSUME Benign, KInv, NEW t \in Threads, HandlerStep(t)
  PROVE  NetworksOwned'
<1> USE DEF KInv, TInv, Inv
<1>1. TouchesOwn(t) /\ HostTypes'
  BY HandlerStepLocal DEF Local
<1>2. \A u \in Threads, n \in Names : u # t /\ WorksOn(u, n) =>
        WorksOn(u, n)' /\ ctx'[u].net = ctx[u].net
  BY OthersKeepWorking
<1>3. CASE ctx[t].rpc \notin {"Create", "Remove"}
  BY <1>1, <1>2, <1>3 DEF TouchesOwn, NetworksOwned, WorksOn
<1>4. CASE ctx[t].rpc \in {"Create", "Remove"}
  <2> DEFINE me == ctx[t].env
             mine == ctx[t].net
  <2>1. me \in Names /\ mine \in Networks /\ WorksOn(t, me) /\ envs[me] = None
    BY <1>4 DEF CallShape, WorksOn, SoleHandler
  <2>2. ASSUME NEW w \in nets', w # mine
        PROVE  \/ \E n \in Names : envs'[n] = w
               \/ \E u \in Threads, n \in Names : WorksOn(u, n)' /\ ctx'[u].net = w
    <3>1. w \in nets /\ w # None
      BY <1>1, <2>2, EnvironmentsAssumption DEF TouchesOwn, HostTypes
    <3>2. \/ \E n \in Names : envs[n] = w
          \/ \E u \in Threads, n \in Names : u # t /\ WorksOn(u, n) /\ ctx[u].net = w
      BY <1>1, <2>2, <3>1 DEF NetworksOwned
    <3>3. \A n \in Names : envs[n] = w => envs'[n] = w
      BY <1>1, <2>1, <3>1 DEF TouchesOwn
    <3>. QED BY <1>2, <3>2, <3>3
  <2>3. CASE pc'[t] # "idle"
    <3>1. (\A n \in Names : n = me => WorksOn(t, n)') /\ ctx'[t].net = mine
      BY <2>1, <2>3, KeepsWorking
    <3>. QED BY <2>1, <2>2, <3>1 DEF NetworksOwned
  <2>4. CASE pc'[t] = "idle"
    <3>1. envs'[me] = mine \/ mine \notin nets'
      BY <1>4, <2>4, EndsClean, BenignIsTame
    <3>. QED BY <2>1, <2>2, <3>1 DEF NetworksOwned
  <2>. QED BY <2>3, <2>4
<1>. QED BY <1>3, <1>4

LEMMA DaemonStepReclaims ==
  ASSUME Tame, TInv, NEW n \in Names, DaemonStep(n)
  PROVE  Reclaiming'
<1> USE DEF TInv, Inv, Tame, Can, handlerVars
<1>1. /\ op[n] = "pending" /\ UNCHANGED <<nic, nets, envs, pc, ctx>>
      /\ op'[n] = "failure" => status'[n] = "absent"
      /\ \A m \in Names : m # n => status'[m] = status[m] /\ op'[m] = op[m]
  BY DEF DaemonStep, OpVisible, OpSucceeds, OpFails, TypeOK
<1>2. ASSUME NEW t \in Threads, ctx[t].rpc \in {"Create", "Remove"} PROVE Teardown(t)'
  <2>1. Teardown(t) /\ ctx[t].env \in Names
    BY <1>2 DEF Reclaiming, CallShape
  <2>. QED BY <1>1, <2>1 DEF Teardown
<1>3. InstancesOwned'
  BY <1>1 DEF Reclaiming, InstancesOwned, WorksOn
<1>. QED BY <1>1, <1>2, <1>3 DEF Reclaiming

\* What a call changes before its handler's first step: a Create takes a new
\* network, a Remove takes the record.
LEMMA CallTakes ==
  ASSUME Inv, NEW t \in Threads, NEW n \in Names, Call(t, n)
  PROVE  /\ UNCHANGED <<status, op, nic, nets>>
         /\ \/ UNCHANGED <<pc, ctx, envs>>
            \/ /\ ctx[t].rpc = "none"
               /\ \A u \in Threads : u # t => ctx'[u] = ctx[u] /\ pc'[u] = pc[u]
               /\ \/ /\ UNCHANGED envs /\ pc'[t] = "network" /\ label[ctx'[t].net] = None
                  \/ UNCHANGED envs /\ ctx'[t].rpc = "Start"
                  \/ /\ envs[n] # None /\ pc'[t] = "cleanup"
                     /\ ctx'[t].rpc = "Remove" /\ ctx'[t].env = n /\ ctx'[t].net = envs[n]
                     /\ \A m \in Names : m # n => envs'[m] = envs[m]
<1> USE DEF Inv, daemonVars
<1>1. UNCHANGED <<status, op, nic, nets>>
  BY DEF Call, RejectCreate, CallCreate, CallStart, CallRemove
<1>2. pc[t] = "idle" => ctx[t].rpc = "none"
  BY DEF CallShape, StepsOf, TypeOK
<1>3. CASE RejectCreate(t, n) \/ CallStart(t, n)
  BY <1>1, <1>2, <1>3 DEF RejectCreate, CallStart, Serve, Context, TypeOK
<1>4. CASE CallCreate(t, n)
  BY <1>1, <1>2, <1>4 DEF CallCreate, Serve, Context, TypeOK
<1>5. CASE CallRemove(t, n)
  BY <1>1, <1>2, <1>5 DEF CallRemove, Serve, Context, TypeOK
<1>. QED BY <1>3, <1>4, <1>5 DEF Call

LEMMA CallReclaims ==
  ASSUME TInv, NEW t \in Threads, NEW n \in Names, Call(t, n)
  PROVE  Reclaiming'
<1> USE DEF TInv, Inv
<1>1. ASSUME NEW u \in Threads, ctx'[u].rpc \in {"Create", "Remove"} PROVE Teardown(u)'
  <2>1. CASE ctx'[u] = ctx[u] /\ pc'[u] = pc[u]
    BY <1>1, <2>1, CallTakes DEF Reclaiming, Teardown
  <2>2. CASE u = t /\ pc'[t] = "network" /\ label[ctx'[t].net] = None
    BY <2>2, CallTakes DEF Labels, Teardown
  <2>3. CASE u = t /\ envs[n] # None /\ pc'[t] = "cleanup" /\ ctx'[t].env = n
    BY <2>3, CallTakes DEF Grounded, Whole, Teardown
  <2>. QED BY <1>1, <2>1, <2>2, <2>3, CallTakes
<1>2. InstancesOwned'
  BY CallTakes DEF Reclaiming, InstancesOwned, WorksOn
<1>. QED BY <1>1, <1>2 DEF Reclaiming

LEMMA NextReclaims ==
  ASSUME Tame
  PROVE  Inv /\ Grounded /\ Reclaiming /\ [Next]_vars => Reclaiming'
<1> SUFFICES ASSUME TInv, [Next]_vars PROVE Reclaiming'
  BY DEF TInv
<1>1. ASSUME NEW t \in Threads, HandlerStep(t) PROVE Reclaiming'
  BY <1>1, TeardownSelf, TeardownOther, HandlerStepOwned DEF Reclaiming
<1>2. CASE \E n \in Names : DaemonStep(n)
  BY <1>2, DaemonStepReclaims
<1>3. CASE \E n \in Names : OperatorStops(n) \/ OperatorDeletes(n)
  BY <1>3 DEF OperatorStops, OperatorDeletes, Can, Tame
<1>4. CASE \E n \in Names : GiveUp(n)
  BY <1>4 DEF GiveUp, TInv, Reclaiming, Teardown, InstancesOwned, WorksOn, daemonVars
<1>5. CASE \E t \in Threads, n \in Names : Call(t, n)
  BY <1>5, CallReclaims
<1>6. CASE Restart
  BY <1>6 DEF Restart, Can, Tame
<1>7. CASE UNCHANGED vars
  BY <1>7 DEF vars, TInv, Reclaiming, Teardown, InstancesOwned, WorksOn
<1>. QED BY <1>1, <1>2, <1>3, <1>4, <1>5, <1>6, <1>7 DEF Next

LEMMA NextOwnsNetworks ==
  ASSUME Benign
  PROVE  TInv /\ NetworksOwned /\ [Next]_vars => NetworksOwned'
<1> SUFFICES ASSUME KInv, [Next]_vars PROVE NetworksOwned'
  BY DEF KInv
<1>1. CASE \E t \in Threads : HandlerStep(t)
  BY <1>1, HandlerStepNetworks
<1>2. ASSUME NEW t \in Threads, NEW n \in Names, Call(t, n) PROVE NetworksOwned'
  BY <1>2, CallTakes DEF KInv, TInv, NetworksOwned, WorksOn
<1>3. ASSUME NEW n \in Names,
             DaemonStep(n) \/ OperatorStops(n) \/ OperatorDeletes(n) \/ GiveUp(n)
      PROVE  UNCHANGED <<nets, envs, ctx>>
  BY <1>3 DEF DaemonStep, OpVisible, OpSucceeds, OpFails, OperatorStops, OperatorDeletes,
              GiveUp, handlerVars, daemonVars
<1>4. CASE UNCHANGED <<nets, envs, ctx>>
  BY <1>4 DEF KInv, NetworksOwned, WorksOn
<1>5. CASE Restart
  BY <1>5 DEF Restart, Can, Benign
<1>6. CASE UNCHANGED vars
  BY <1>4, <1>6 DEF vars
<1>. QED BY <1>1, <1>2, <1>3, <1>4, <1>5, <1>6 DEF Next

LEMMA Tended ==
  ASSUME Tame
  PROVE  Spec => []TInv
<1>1. Init => Grounded /\ Reclaiming
  BY DEF Init, Grounded, Reclaiming, InstancesOwned, NoCall, Context
<1>2. "operator" \notin Faults
  BY DEF Tame
<1>. QED
  BY <1>1, <1>2, NextGrounded, NextReclaims, Invariant, PTL DEF Spec, TInv

LEMMA Reclaimed ==
  ASSUME Benign
  PROVE  Spec => []KInv
<1>1. Init => NetworksOwned
  BY DEF Init, NetworksOwned
<1>2. Spec => []TInv
  BY Tended, BenignIsTame
<1>. QED BY <1>1, <1>2, NextOwnsNetworks, PTL DEF Spec, KInv

\* A network whose making is lost sight of and a slip in an option may cost a
\* network, never an instance: each instance and each create operation is on
\* record or in the hands of a handler.
THEOREM InstancesHaveOwners ==
  ASSUME Tame
  PROVE  Spec => []InstancesOwned
  BY Tended, PTL DEF TInv, Reclaiming

\* Nothing on the host is ever without an owner: each instance, each create
\* operation and each network is on record or in the hands of a handler, even
\* when Creates fail at any point and the runner gives up on calls and repeats
\* Removes that are still running.
THEOREM NothingIsOrphaned ==
  ASSUME Benign
  PROVE  Spec => []NothingOrphaned
  BY Reclaimed, PTL DEF KInv, TInv, Reclaiming, NothingOrphaned

\* What nothing owns is not there: a job without a record and without a handler
\* has nothing on the host.
Unowned(n) == envs[n] = None /\ \A t \in Threads : ~WorksOn(t, n)

LEMMA UnownedMeansClean ==
  KInv => \A n \in Names : Unowned(n) => HostClean(n)
<1> SUFFICES ASSUME KInv, NEW n \in Names, Unowned(n) PROVE HostClean(n)
  OBVIOUS
<1> USE DEF KInv, TInv, Inv, Unowned
<1>1. status[n] = "absent" /\ op[n] # "pending"
  <2>1. status[n] # "absent" \/ op[n] = "pending" => nic[n] # None
    BY EnvironmentsAssumption DEF Labels
  <2>. QED BY <2>1 DEF Reclaiming, InstancesOwned
<1>2. ASSUME NEW w \in nets, label[w] = n PROVE FALSE
  <2>1. CASE \E m \in Names : envs[m] = w
    <3>1. PICK m \in Names : envs[m] = w
      BY <2>1
    <3>2. w # None
      BY EnvironmentsAssumption DEF TypeOK
    <3>. QED BY <1>2, <3>1, <3>2 DEF Labels
  <2>2. CASE \E t \in Threads, m \in Names : WorksOn(t, m) /\ ctx[t].net = w
    BY <1>2, <2>2 DEF Labels, WorksOn
  <2>. QED BY <2>1, <2>2 DEF NetworksOwned
<1>. QED BY <1>1, <1>2 DEF HostClean

LEMMA UnownedMeansCleanNext ==
  (KInv => \A n \in Names : Unowned(n) => HostClean(n))'
BY UnownedMeansClean, PTL

\* A call that ends is the step of its own handler, which nobody else's work
\* on the environment overlaps: so what is left has neither record nor worker.
LEMMA CallEndsOwned ==
  ASSUME Benign, KInv, KInv', [Next]_vars, NEW t \in Threads, NEW n \in Names,
         WorksOn(t, n), pc'[t] = "idle", envs'[n] = None
  PROVE  HostClean(n)'
<1> USE DEF KInv, TInv, Inv
<1>1. pc[t] # "idle"
  BY DEF WorksOn, CallShape, StepsOf
<1>2. HandlerStep(t)
  <2>1. ASSUME NEW u \in Threads, u # t, HandlerStep(u) PROVE FALSE
    BY <1>1, <2>1, HandlerStepLocal DEF Local, MovesOnly
  <2>2. ASSUME NEW u \in Threads, NEW m \in Names, Call(u, m) PROVE FALSE
    BY <1>1, <2>2 DEF Call, RejectCreate, CallCreate, CallStart, CallRemove, Serve, TypeOK
  <2>3. CASE UNCHANGED pc
    BY <1>1, <2>3
  <2>4. ~Restart
    BY DEF Restart, Can, Benign
  <2>. QED
    BY <2>1, <2>2, <2>3, <2>4
    DEF Next, vars, DaemonStep, OpVisible, OpSucceeds, OpFails, OperatorStops,
        OperatorDeletes, GiveUp, handlerVars
<1>3. ctx'[t] = NoCall /\ \A u \in Threads : u # t => ctx'[u] = ctx[u]
  BY <1>2, HandlerStepLocal
  DEF Local, MovesOnly, Finishes, Continues, StepsOf, Building, TearingDown, WorksOn
<1>4. Unowned(n)'
  <2>1. ~WorksOn(t, n)'
    BY <1>3 DEF WorksOn, NoCall, Context
  <2>2. \A u \in Threads : u # t => ~WorksOn(u, n)'
    BY <1>3 DEF WorksOn, SoleHandler
  <2>. QED BY <2>1, <2>2 DEF Unowned
<1>. QED BY <1>4, UnownedMeansCleanNext

\* Every Create and every Remove ends with its environment on record or with
\* nothing of it left on the host, whatever the daemon refuses and however
\* impatient the runner.
THEOREM HandlersEndClean ==
  ASSUME Benign
  PROVE  Spec => EndsRecordedOrGone
<1>1. KInv /\ KInv' /\ [Next]_vars =>
        [\A t \in Threads, n \in Names :
           WorksOn(t, n) /\ pc'[t] = "idle" => envs'[n] # None \/ HostClean(n)']_vars
  BY CallEndsOwned
<1>. QED BY <1>1, Reclaimed, PTL DEF Spec, EndsRecordedOrGone

-----------------------------------------------------------------------------
(* A patient runner knows where each of its jobs stands.                   *)

Patient == Faults \subseteq {"refuse", "setup"}
Attended == Faults \cap {"impatient", "restart"} = {}

InStep ==
  /\ \A t \in Threads : ctx[t].rpc = "Create" => phase[ctx[t].env] = "creating"
  /\ \A t \in Threads : ctx[t].rpc = "Remove" => phase[ctx[t].env] = "removing"
  /\ \A n \in Names : envs[n] # None => phase[n] = "created"

\* The runner hears of a call only when it is answered.
LEMMA HandlerStepPhases ==
  ASSUME Inv, NEW t \in Threads, HandlerStep(t)
  PROVE  \/ UNCHANGED phase
         \/ \E c : phase' = [phase EXCEPT ![ctx[t].env] = Onward(phase[ctx[t].env], ctx[t].rpc, c)]
<1> USE DEF daemonVars, Goto, GotoFailing, Answer, RemovalFailed
<1>1. CASE CreateStep(t)
  BY <1>1 DEF CreateStep, CreateNetwork, RejectEphemeral, Launch, LaunchWait, Setup,
              Describe, Record
<1>2. CASE StartStep(t)
  BY <1>2 DEF StartStep, StartProbe, StartContainer
<1>3. CASE RemoveStep(t)
  BY <1>3 DEF RemoveStep, Cleanup, Probe, Stop, Delete, DeleteWait, Unplug
<1>. QED BY <1>1, <1>2, <1>3 DEF HandlerStep

LEMMA HandlerStepInStep ==
  ASSUME Inv, InStep, NEW t \in Threads, HandlerStep(t)
  PROVE  InStep'
<1> USE DEF Inv
<1>1. MovesOnly(t) /\ TouchesOwn(t) /\ HostTypes
  BY HandlerStepLocal, TypesSplit DEF Local
<1>2. ASSUME NEW u \in Threads, ctx'[u].rpc \in {"Create", "Remove"}
      PROVE  /\ ctx'[u].rpc = ctx[u].rpc /\ ctx'[u].env = ctx[u].env /\ ctx[u].env \in Names
             /\ pc'[u] # "idle"
  BY <1>1, <1>2 DEF MovesOnly, Finishes, Continues, NoCall, Context, CallShape, StepsOf
<1>3. \A n \in Names : n # ctx[t].env \/ ctx[t].rpc \notin {"Create", "Remove"} =>
        phase'[n] = phase[n]
  BY HandlerStepPhases DEF Onward, TypeOK
<1>4. pc'[t] # "idle" => UNCHANGED phase
  <2>1. /\ pc \in [Threads -> {"idle"} \cup Building \cup TearingDown \cup Starting]
    BY DEF TypeOK
  <2> USE <2>1 DEF daemonVars, Goto, GotoFailing, Answer, RemovalFailed
  <2>2. CASE CreateStep(t)
    BY <2>2 DEF CreateStep, CreateNetwork, RejectEphemeral, Launch, LaunchWait, Setup,
                Describe, Record
  <2>3. CASE StartStep(t)
    BY <2>3 DEF StartStep, StartProbe, StartContainer
  <2>4. CASE RemoveStep(t)
    BY <2>4 DEF RemoveStep, Cleanup, Probe, Stop, Delete, DeleteWait, Unplug
  <2>. QED BY <2>2, <2>3, <2>4 DEF HandlerStep
<1>5. ASSUME NEW u \in Threads, ctx'[u].rpc \in {"Create", "Remove"}
      PROVE  phase'[ctx'[u].env] = phase[ctx[u].env]
  <2>1. CASE u = t
    BY <1>2, <1>4, <1>5, <2>1
  <2>2. CASE u # t
    <3>1. ctx[t].env # ctx[u].env \/ ctx[t].rpc \notin {"Create", "Remove"}
      BY <1>2, <1>5, <2>2 DEF SoleHandler, WorksOn
    <3>. QED BY <1>2, <1>3, <1>5, <3>1
  <2>. QED BY <2>1, <2>2
<1>6. ASSUME NEW n \in Names, envs'[n] # None PROVE phase'[n] = "created"
  <2>1. CASE Record(t) /\ n = ctx[t].env
    <3>1. ctx[t].rpc = "Create" /\ phase[n] = "creating"
      BY <2>1 DEF Record, CallShape, StepsOf, InStep
    <3>. QED BY <2>1, <3>1 DEF Record, Answer, Onward, TypeOK
  <2>2. CASE ~Record(t)
    <3>1. UNCHANGED envs
      BY <2>2
      DEF HandlerStep, CreateStep, StartStep, RemoveStep, CreateNetwork, RejectEphemeral,
          Launch, LaunchWait, Setup, Describe, StartProbe, StartContainer, Cleanup, Probe,
          Stop, Delete, DeleteWait, Unplug
    <3>2. n # ctx[t].env \/ ctx[t].rpc \notin {"Create", "Remove"}
      BY <1>6, <3>1 DEF SoleHandler, WorksOn
    <3>. QED BY <1>3, <1>6, <3>1, <3>2 DEF InStep
  <2>3. CASE n # ctx[t].env
    BY <1>1, <1>3, <1>6, <2>3 DEF TouchesOwn, InStep
  <2>. QED BY <2>1, <2>2, <2>3
<1>. QED BY <1>2, <1>5, <1>6 DEF InStep

LEMMA NextInStep ==
  ASSUME Attended
  PROVE  Inv /\ InStep /\ [Next]_vars => InStep'
<1> SUFFICES ASSUME Inv, InStep, [Next]_vars PROVE InStep'
  OBVIOUS
<1> USE DEF Inv, daemonVars, handlerVars
<1>1. CASE \E t \in Threads : HandlerStep(t)
  BY <1>1, HandlerStepInStep
<1>2. CASE \E n \in Names : DaemonStep(n) \/ OperatorStops(n) \/ OperatorDeletes(n)
  BY <1>2 DEF DaemonStep, OpVisible, OpSucceeds, OpFails, OperatorStops, OperatorDeletes, InStep
<1>3. CASE (\E n \in Names : GiveUp(n)) \/ Restart
  BY <1>3 DEF GiveUp, Restart, Can, Attended
<1>4. ASSUME NEW t \in Threads, NEW n \in Names, RejectCreate(t, n) PROVE InStep'
  BY <1>4 DEF RejectCreate, InStep, Fresh, TypeOK
<1>5. ASSUME NEW t \in Threads, NEW n \in Names, CallCreate(t, n) PROVE InStep'
  BY <1>5 DEF CallCreate, Serve, Context, InStep, Fresh, CallShape, TypeOK
<1>6. ASSUME NEW t \in Threads, NEW n \in Names, CallStart(t, n) PROVE InStep'
  BY <1>6 DEF CallStart, Serve, Context, InStep, TypeOK
<1>7. ASSUME NEW t \in Threads, NEW n \in Names, CallRemove(t, n) PROVE InStep'
  <2>1. \A u \in Threads : ~WorksOn(u, n)
    BY <1>7 DEF CallRemove, Can, Attended
  <2>2. CASE envs[n] = None
    <3>1. UNCHANGED <<ctx, pc>> /\ phase' = [phase EXCEPT ![n] = "removed"]
          /\ envs' = [envs EXCEPT ![n] = None]
      BY <1>7, <2>2 DEF CallRemove, Serve
    <3>. QED BY <2>1, <2>2, <3>1 DEF InStep, WorksOn, TypeOK
  <2>3. CASE envs[n] # None
    <3>1. /\ ctx' = [ctx EXCEPT ![t] = Context("Remove", n, envs[n], "OK")]
          /\ phase' = [phase EXCEPT ![n] = "removing"]
          /\ envs' = [envs EXCEPT ![n] = None]
      BY <1>7, <2>3 DEF CallRemove, Serve
    <3>2. \A u \in Threads : u # t => ctx'[u] = ctx[u]
      BY <3>1 DEF TypeOK
    <3>3. ctx'[t].rpc = "Remove" /\ ctx'[t].env = n
      BY <3>1 DEF Context, TypeOK
    <3>. QED BY <2>1, <3>1, <3>2, <3>3 DEF InStep, WorksOn, TypeOK
  <2>. QED BY <2>2, <2>3
<1>8. CASE UNCHANGED vars
  BY <1>8 DEF vars, InStep
<1>. QED BY <1>1, <1>2, <1>3, <1>4, <1>5, <1>6, <1>7, <1>8 DEF Next, Call

LEMMA Followed ==
  ASSUME Attended
  PROVE  Spec => []InStep
<1>1. Init => InStep
  BY DEF Init, InStep, NoCall, Context
<1>. QED BY <1>1, NextInStep, Invariant, PTL DEF Spec

LEMMA Tracked ==
  ASSUME Patient
  PROVE  Spec => [](KInv /\ InStep)
<1>1. Benign /\ Attended
  BY DEF Patient, Benign, Attended
<1>. QED BY <1>1, Followed, Reclaimed, PTL

\* A Create that fails, at whatever point the daemon or the set-up of the job
\* fails it, leaves no instance, no operation and no network behind.
THEOREM FailedCreateLeavesNothing ==
  ASSUME Patient
  PROVE  Spec => []FailedMeansGone
<1>1. KInv /\ InStep => FailedMeansGone
  BY UnownedMeansClean DEF FailedMeansGone, Unowned, InStep, WorksOn
<1>. QED BY <1>1, Tracked, PTL

\* A Remove that answered OK has released the instance and the network of its
\* environment, for any number of jobs removed at once.
THEOREM RemoveReleasesEverything ==
  ASSUME Patient
  PROVE  Spec => []RemovedMeansGone
<1>1. KInv /\ InStep => RemovedMeansGone
  BY UnownedMeansClean DEF RemovedMeansGone, Unowned, InStep, WorksOn
<1>. QED BY <1>1, Tracked, PTL

\* Even where a Create may leave its network behind, no job that is over leaves
\* an instance, nor an operation that will make one, as long as no call of a
\* teardown fails and the runner waits for its answers.
THEOREM OverLeavesNoInstance ==
  ASSUME Tame, Attended
  PROVE  Spec => []OverMeansInstanceGone
<1>1. TInv /\ InStep => OverMeansInstanceGone
  <2> SUFFICES ASSUME TInv, InStep, NEW n \in Names, phase[n] \in {"failed", "removed"}
               PROVE  status[n] = "absent" /\ op[n] # "pending"
    BY DEF OverMeansInstanceGone
  <2>1. envs[n] = None /\ \A t \in Threads : ~WorksOn(t, n)
    BY DEF InStep, WorksOn
  <2>2. status[n] # "absent" \/ op[n] = "pending" => nic[n] # None
    BY EnvironmentsAssumption DEF TInv, Inv, Labels
  <2>. QED BY <2>1, <2>2 DEF TInv, Reclaiming, InstancesOwned
<1>. QED BY <1>1, Tended, Followed, PTL

-----------------------------------------------------------------------------
(* The promise.  What a step does to the one environment it is about is a  *)
(* step of JobEnvironment, and it leaves all others as they are.           *)

Builds(t, n) == ctx[t].env = n /\ ctx[t].rpc = "Create"
Removes(t, n) == ctx[t].env = n /\ ctx[t].rpc = "Remove"

\* Record, builder, remover and neither exclude each other, so the stage is
\* what the one of them that applies says.
LEMMA StageFacts ==
  KInv => \A n \in Names :
    /\ phase[n] = "new" => StageOf(n) = "none" /\ Unowned(n)
    /\ envs[n] # None => StageOf(n) = "usable"
    /\ \A t \in Threads : Builds(t, n) => StageOf(n) = "building"
    /\ \A t \in Threads : Removes(t, n) => StageOf(n) = "ending"
    /\ phase[n] # "new" /\ Unowned(n) => StageOf(n) = "over"
<1> SUFFICES ASSUME KInv, NEW n \in Names
             PROVE  /\ phase[n] = "new" => StageOf(n) = "none" /\ Unowned(n)
                    /\ envs[n] # None => StageOf(n) = "usable"
                    /\ \A t \in Threads : Builds(t, n) => StageOf(n) = "building"
                    /\ \A t \in Threads : Removes(t, n) => StageOf(n) = "ending"
                    /\ phase[n] # "new" /\ Unowned(n) => StageOf(n) = "over"
  OBVIOUS
<1>1. phase[n] = "new" => envs[n] = None /\ \A t \in Threads : ctx[t].env # n
  BY DEF KInv, TInv, Inv, Fresh
<1>2. \A t \in Threads : Builds(t, n) \/ Removes(t, n) =>
        envs[n] = None /\ \A u \in Threads : Builds(u, n) \/ Removes(u, n) => u = t
  BY DEF KInv, TInv, Inv, SoleHandler, WorksOn, Builds, Removes
<1> DEFINE built == \E t \in Threads : ctx[t].env = n /\ ctx[t].rpc = "Create"
           removed == \E t \in Threads : ctx[t].env = n /\ ctx[t].rpc = "Remove"
<1>3. /\ built => ~removed /\ envs[n] = None /\ phase[n] # "new"
      /\ removed => ~built /\ envs[n] = None /\ phase[n] # "new"
      /\ envs[n] # None => phase[n] # "new"
  BY <1>1, <1>2 DEF Builds, Removes
<1>4. StageOf(n) = CASE phase[n] = "new" -> "none"
                     [] envs[n] # None -> "usable"
                     [] built -> "building"
                     [] removed -> "ending"
                     [] OTHER -> "over"
  BY DEF StageOf
<1>5. /\ \A t \in Threads : Builds(t, n) => built
      /\ \A t \in Threads : Removes(t, n) => removed
      /\ Unowned(n) => envs[n] = None /\ ~built /\ ~removed
  BY DEF Builds, Removes, Unowned, WorksOn
<1>6. phase[n] = "new" => Unowned(n)
  BY <1>1 DEF Unowned, WorksOn
<1> HIDE DEF built, removed
<1>. QED BY <1>3, <1>4, <1>5, <1>6

\* A record, and a Create about to make one, vouch for everything; where no
\* one is responsible there is nothing.
LEMMA AssetsFacts ==
  KInv => \A n \in Names :
    /\ AssetsOf(n) \in {"nothing", "some", "everything"}
    /\ HostClean(n) => AssetsOf(n) = "nothing"
    /\ envs[n] # None => AssetsOf(n) = "everything"
    /\ \A t \in Threads : Builds(t, n) /\ pc[t] = "record" => AssetsOf(n) = "everything"
    /\ Unowned(n) => AssetsOf(n) = "nothing"
<1> SUFFICES ASSUME KInv, NEW n \in Names
             PROVE  /\ AssetsOf(n) \in {"nothing", "some", "everything"}
                    /\ HostClean(n) => AssetsOf(n) = "nothing"
                    /\ envs[n] # None => AssetsOf(n) = "everything"
                    /\ \A t \in Threads :
                         Builds(t, n) /\ pc[t] = "record" => AssetsOf(n) = "everything"
                    /\ Unowned(n) => AssetsOf(n) = "nothing"
  OBVIOUS
<1>1. AssetsOf(n) \in {"nothing", "some", "everything"}
  BY DEF AssetsOf
<1>2. HostClean(n) => AssetsOf(n) = "nothing"
  BY DEF AssetsOf, HostClean
<1>3. status[n] = "running" => AssetsOf(n) = "everything"
  BY DEF AssetsOf, HostClean, KInv, TInv, Inv, Grounded, Labels
<1>4. envs[n] # None => status[n] = "running"
  BY DEF KInv, TInv, Grounded, Whole
<1>5. \A t \in Threads : Builds(t, n) /\ pc[t] = "record" => status[n] = "running"
  BY DEF KInv, TInv, Grounded, Knows, Builds
<1>6. Unowned(n) => HostClean(n)
  BY UnownedMeansClean
<1>. QED BY <1>1, <1>2, <1>3, <1>4, <1>5, <1>6

LEMMA FactsNext ==
  KInv' => \A n \in Names :
    /\ envs'[n] # None => StageOf(n)' = "usable"
    /\ \A t \in Threads : Builds(t, n)' => StageOf(n)' = "building"
    /\ \A t \in Threads : Removes(t, n)' => StageOf(n)' = "ending"
    /\ phase'[n] # "new" /\ Unowned(n)' => StageOf(n)' = "over" /\ AssetsOf(n)' = "nothing"
    /\ AssetsOf(n)' \in {"nothing", "some", "everything"}
<1>1. (KInv => \A n \in Names :
         /\ phase[n] = "new" => StageOf(n) = "none" /\ Unowned(n)
         /\ envs[n] # None => StageOf(n) = "usable"
         /\ \A t \in Threads : Builds(t, n) => StageOf(n) = "building"
         /\ \A t \in Threads : Removes(t, n) => StageOf(n) = "ending"
         /\ phase[n] # "new" /\ Unowned(n) => StageOf(n) = "over")'
  BY StageFacts, PTL
<1>2. (KInv => \A n \in Names :
         /\ AssetsOf(n) \in {"nothing", "some", "everything"}
         /\ HostClean(n) => AssetsOf(n) = "nothing"
         /\ envs[n] # None => AssetsOf(n) = "everything"
         /\ \A t \in Threads : Builds(t, n) /\ pc[t] = "record" => AssetsOf(n) = "everything"
         /\ Unowned(n) => AssetsOf(n) = "nothing")'
  BY AssetsFacts, PTL
<1>. QED BY <1>1, <1>2

LEMMA StageKept ==
  ASSUME NEW n \in Names, phase'[n] = "new" <=> phase[n] = "new", envs'[n] = envs[n],
         \A t \in Threads : Builds(t, n)' <=> Builds(t, n),
         \A t \in Threads : Removes(t, n)' <=> Removes(t, n)
  PROVE  StageOf(n)' = StageOf(n)
<1> DEFINE built == \E t \in Threads : ctx[t].env = n /\ ctx[t].rpc = "Create"
           removed == \E t \in Threads : ctx[t].env = n /\ ctx[t].rpc = "Remove"
<1>1. (built' <=> built) /\ (removed' <=> removed)
  BY DEF Builds, Removes
<1>2. StageOf(n) = CASE phase[n] = "new" -> "none"
                     [] envs[n] # None -> "usable"
                     [] built -> "building"
                     [] removed -> "ending"
                     [] OTHER -> "over"
  BY DEF StageOf
<1>3. StageOf(n)' = CASE phase'[n] = "new" -> "none"
                      [] envs'[n] # None -> "usable"
                      [] built' -> "building"
                      [] removed' -> "ending"
                      [] OTHER -> "over"
  BY DEF StageOf
<1> HIDE DEF built, removed
<1>. QED BY <1>1, <1>2, <1>3

LEMMA AssetsKept ==
  ASSUME NEW n \in Names, status'[n] = status[n], op'[n] = op[n], nic'[n] = nic[n],
         \A w : w \in nets' /\ label'[w] = n <=> w \in nets /\ label[w] = n
  PROVE  AssetsOf(n)' = AssetsOf(n)
<1>1. HostClean(n)' <=> HostClean(n)
  BY DEF HostClean
<1>2. /\ status'[n] = "running" /\ nic'[n] \in nets' /\ label'[nic'[n]] = n
      <=> status[n] = "running" /\ nic[n] \in nets /\ label[nic[n]] = n
  OBVIOUS
<1>. QED BY <1>1, <1>2 DEF AssetsOf

\* What JobEnvironment lets happen to n in one step.
Allowed(n) ==
  \/ StageOf(n)' = StageOf(n) /\ AssetsOf(n)' = AssetsOf(n)
  \/ StageOf(n) \in {"building", "ending"} /\ StageOf(n)' = StageOf(n)
  \/ StageOf(n) = "none" /\ StageOf(n)' = "building" /\ AssetsOf(n)' = AssetsOf(n)
  \/ /\ StageOf(n) = "building" /\ StageOf(n)' = "usable"
     /\ AssetsOf(n) = "everything" /\ AssetsOf(n)' = AssetsOf(n)
  \/ StageOf(n) = "usable" /\ StageOf(n)' = "ending" /\ AssetsOf(n)' = AssetsOf(n)
  \/ /\ StageOf(n) \in {"none", "building", "ending"} /\ StageOf(n)' = "over"
     /\ AssetsOf(n)' = "nothing"

\* Names other than n are where they were.
SparesOthers(n) ==
  \A m \in Names : m # n => StageOf(m)' = StageOf(m) /\ AssetsOf(m)' = AssetsOf(m)

LEMMA AllowedStep ==
  ASSUME KInv', NEW n \in Names, Allowed(n), SparesOthers(n)
  PROVE  [Promise!Next]_(Promise!vars)
<1> DEFINE stages == [m \in Names |-> StageOf(m)]
           assets == [m \in Names |-> AssetsOf(m)]
<1>1. /\ stages' = [stages EXCEPT ![n] = StageOf(n)']
      /\ assets' = [assets EXCEPT ![n] = AssetsOf(n)']
      /\ StageOf(n)' = StageOf(n) => stages' = stages
      /\ AssetsOf(n)' = AssetsOf(n) => assets' = assets
  BY DEF SparesOthers
<1>2. stages[n] = StageOf(n) /\ assets[n] = AssetsOf(n)
  OBVIOUS
<1>3. AssetsOf(n)' \in Promise!Assets
  BY FactsNext DEF Promise!Assets
<1> HIDE DEF stages, assets
<1>. QED
  BY <1>1, <1>2, <1>3
  DEF stages, assets, Allowed, Promise!vars, Promise!Next, Promise!Begin, Promise!Rework, Promise!Offer,
      Promise!End, Promise!Finish, Promise!Move

\* A handler's step shows in its own environment only: a step in the middle
\* reworks it, Record offers it, and any other end finds it clean.
LEMMA HandlerStepAllowed ==
  ASSUME Benign, KInv, KInv', [Next]_vars, NEW t \in Threads, HandlerStep(t)
  PROVE  \E n \in Names : Allowed(n) /\ SparesOthers(n)
<1> USE DEF KInv, TInv, Inv
<1> DEFINE me == ctx[t].env
<1>1. MovesOnly(t) /\ TouchesOwn(t) /\ HostTypes /\ HostTypes'
  BY HandlerStepLocal, TypesSplit DEF Local
<1>2. ctx[t].rpc # "none" /\ me \in Names /\ ctx[t].net \in Networks /\ pc[t] # "idle"
  <2>1. pc[t] # "idle"
    BY DEF HandlerStep, CreateStep, StartStep, RemoveStep, CreateNetwork, RejectEphemeral,
           Launch, LaunchWait, Setup, Describe, Record, StartProbe, StartContainer, Cleanup,
           Probe, Stop, Delete, DeleteWait, Unplug
  <2>. QED BY <2>1 DEF CallShape, StepsOf
<1>3. \A n \in Names : phase'[n] = "new" <=> phase[n] = "new"
  <2>1. phase[me] # "new"
    BY <1>2 DEF Fresh
  <2>2. \A p : \A c : p # "new" => Onward(p, ctx[t].rpc, c) # "new"
    BY DEF Onward
  <2>. QED BY <2>1, <2>2, <1>2, HandlerStepPhases DEF TypeOK
<1>4. /\ \A u \in Threads : u # t => ctx'[u] = ctx[u]
      /\ pc'[t] # "idle" => ctx'[t].rpc = ctx[t].rpc /\ ctx'[t].env = me
      /\ pc'[t] = "idle" => ctx'[t].rpc = "none" /\ ctx'[t].env = None
  BY <1>1, <1>2 DEF MovesOnly, Finishes, Continues, StepsOf, NoCall, Context, CallShape
<1>5. CASE ctx[t].rpc \notin {"Create", "Remove"}
  <2>1. \A u \in Threads, n \in Names : Builds(u, n)' <=> Builds(u, n)
    BY <1>4, <1>5 DEF Builds
  <2>2. \A u \in Threads, n \in Names : Removes(u, n)' <=> Removes(u, n)
    BY <1>4, <1>5 DEF Removes
  <2>3. UNCHANGED <<status, op, nic, nets, label, envs>>
    BY <1>1, <1>5 DEF TouchesOwn
  <2>4. \A n \in Names : StageOf(n)' = StageOf(n) /\ AssetsOf(n)' = AssetsOf(n)
    BY <1>3, <2>1, <2>2, <2>3, StageKept, AssetsKept
  <2>. QED BY <1>2, <2>4 DEF Allowed, SparesOthers
<1>6. CASE ctx[t].rpc \in {"Create", "Remove"}
  <2>1. SparesOthers(me)
    <3> SUFFICES ASSUME NEW n \in Names, n # me
                 PROVE  StageOf(n)' = StageOf(n) /\ AssetsOf(n)' = AssetsOf(n)
      BY DEF SparesOthers
    <3>1. /\ status'[n] = status[n] /\ op'[n] = op[n] /\ nic'[n] = nic[n]
          /\ envs'[n] = envs[n] /\ label' = label
      BY <1>1 DEF TouchesOwn
    <3>2. \A w : w \in nets' /\ label'[w] = n <=> w \in nets /\ label[w] = n
      BY <1>1, <1>6, <3>1 DEF TouchesOwn, Labels, HostTypes
    <3>3. AssetsOf(n)' = AssetsOf(n)
      BY <3>1, <3>2, AssetsKept
    <3>4. \A u \in Threads : Builds(u, n)' <=> Builds(u, n)
      BY <1>4, EnvironmentsAssumption DEF Builds
    <3>5. \A u \in Threads : Removes(u, n)' <=> Removes(u, n)
      BY <1>4, EnvironmentsAssumption DEF Removes
    <3>6. StageOf(n)' = StageOf(n)
      BY <1>3, <3>1, <3>4, <3>5, StageKept
    <3>. QED BY <3>3, <3>6
  <2>2. envs[me] = None /\ phase[me] # "new" /\ phase'[me] # "new"
        /\ (Builds(t, me) \/ Removes(t, me)) /\ StageOf(me) \in {"building", "ending"}
    BY <1>2, <1>3, <1>6, StageFacts DEF Fresh, SoleHandler, WorksOn, Builds, Removes
  <2>3. CASE pc'[t] # "idle"
    <3>1. envs'[me] = envs[me]
      BY <1>1, <2>3 DEF TouchesOwn, Finishes
    <3>2. \A n \in Names : n = me => StageOf(n)' = StageOf(n)
      <4> SUFFICES ASSUME NEW n \in Names, n = me PROVE StageOf(n)' = StageOf(n)
        OBVIOUS
      <4>1. \A u \in Threads : Builds(u, n)' <=> Builds(u, n)
        BY <1>4, <2>3 DEF Builds
      <4>2. \A u \in Threads : Removes(u, n)' <=> Removes(u, n)
        BY <1>4, <2>3 DEF Removes
      <4>. QED BY <1>3, <3>1, <4>1, <4>2, StageKept
    <3>. QED BY <1>2, <2>1, <2>2, <3>2 DEF Allowed
  <2>4. CASE pc'[t] = "idle" /\ envs'[me] = None
    <3>1. \A u \in Threads : u # t => ~Builds(u, me) /\ ~Removes(u, me)
      BY <1>2, <2>2 DEF SoleHandler, WorksOn, Builds, Removes
    <3>2. \A n \in Names : n = me => \A u \in Threads : ~Builds(u, n)' /\ ~Removes(u, n)'
      BY <1>4, <2>4, <3>1 DEF Builds, Removes
    <3>3. \A n \in Names : n = me => Unowned(n)'
      BY <2>4, <3>2 DEF Unowned, WorksOn, Builds, Removes
    <3>4. \A n \in Names : n = me => StageOf(n)' = "over" /\ AssetsOf(n)' = "nothing"
      BY <2>2, <3>3, FactsNext
    <3>. QED BY <1>2, <2>1, <2>2, <3>4 DEF Allowed
  <2>5. CASE pc'[t] = "idle" /\ envs'[me] # None
    <3>1. Record(t)
      BY <2>2, <2>5
      DEF HandlerStep, CreateStep, StartStep, RemoveStep, CreateNetwork, RejectEphemeral,
          Launch, LaunchWait, Setup, Describe, StartProbe, StartContainer, Cleanup, Probe,
          Stop, Delete, DeleteWait, Unplug
    <3>2. pc[t] = "record" /\ Builds(t, me)
      BY <3>1 DEF Record, Builds, CallShape, StepsOf
    <3>3. StageOf(me) = "building" /\ AssetsOf(me) = "everything"
      BY <1>2, <3>2, StageFacts, AssetsFacts
    <3>4. \A n \in Names : n = me => StageOf(n)' = "usable"
      BY <2>5, FactsNext
    <3>5. \A n \in Names : AssetsOf(n)' = AssetsOf(n)
      BY <3>1, AssetsKept DEF Record, daemonVars
    <3>. QED BY <1>2, <2>1, <3>3, <3>4, <3>5 DEF Allowed
  <2>. QED BY <2>3, <2>4, <2>5
<1>. QED BY <1>5, <1>6

\* The daemon works on an instance only while a handler has it in hand.
LEMMA DaemonStepAllowed ==
  ASSUME KInv, NEW n \in Names, DaemonStep(n)
  PROVE  Allowed(n) /\ SparesOthers(n)
<1> USE DEF KInv, TInv, Inv
<1>1. /\ op[n] = "pending" /\ UNCHANGED <<nic, nets, label, envs, pc, ctx, phase>>
      /\ \A m \in Names : m # n => status'[m] = status[m] /\ op'[m] = op[m]
  BY DEF DaemonStep, OpVisible, OpSucceeds, OpFails, handlerVars, TypeOK
<1>2. PICK t \in Threads : Builds(t, n) \/ Removes(t, n)
  <2>1. envs[n] = None /\ nic[n] # None
    BY <1>1, EnvironmentsAssumption DEF Grounded, Whole, Labels
  <2>. QED BY <1>1, <2>1 DEF Reclaiming, InstancesOwned, WorksOn, Builds, Removes
<1>3. \A m \in Names : StageOf(m)' = StageOf(m)
  BY <1>1, StageKept DEF Builds, Removes
<1>4. \A m \in Names : m # n => AssetsOf(m)' = AssetsOf(m)
  BY <1>1, AssetsKept
<1>. QED BY <1>2, <1>3, <1>4, StageFacts DEF Allowed, SparesOthers

LEMMA CreateCallAllowed ==
  ASSUME KInv, KInv', NEW t \in Threads, NEW n \in Names,
         RejectCreate(t, n) \/ CallCreate(t, n)
  PROVE  Allowed(n) /\ SparesOthers(n)
<1> USE DEF KInv, TInv, Inv, daemonVars
<1>1. /\ phase[n] = "new" /\ pc[t] = "idle" /\ UNCHANGED <<status, op, nic, nets, envs>>
      /\ \A m \in Names : m # n => phase'[m] = phase[m]
      /\ phase'[n] # "new" /\ \A u \in Threads : u # t => ctx'[u] = ctx[u]
  BY DEF RejectCreate, CallCreate, Serve, TypeOK
<1>2. ctx[t].rpc = "none"
  BY <1>1 DEF CallShape, StepsOf, TypeOK
<1>3. StageOf(n) = "none" /\ Unowned(n) /\ AssetsOf(n) = "nothing"
  BY <1>1, StageFacts, AssetsFacts
<1>4. CASE RejectCreate(t, n)
  <2>1. UNCHANGED <<ctx, label>>
    BY <1>4 DEF RejectCreate
  <2>2. \A m \in Names : m # n => StageOf(m)' = StageOf(m)
    BY <1>1, <2>1, StageKept DEF Builds, Removes
  <2>3. \A m \in Names : AssetsOf(m)' = AssetsOf(m)
    BY <1>1, <2>1, AssetsKept
  <2>4. Unowned(n)'
    BY <1>1, <1>3, <2>1 DEF Unowned, WorksOn
  <2>5. StageOf(n)' = "over"
    BY <1>1, <2>4, FactsNext
  <2>. QED BY <1>3, <2>2, <2>3, <2>5 DEF Allowed, SparesOthers
<1>5. CASE CallCreate(t, n)
  <2>1. PICK w \in Networks : label[w] = None /\ label' = [label EXCEPT ![w] = n]
    BY <1>5 DEF CallCreate
  <2>2. ctx'[t].rpc = "Create" /\ ctx'[t].env = n
    BY <1>5 DEF CallCreate, Serve, Context, TypeOK
  <2>3. w \notin nets /\ \A v \in nets : label'[v] = label[v]
    BY <2>1 DEF Labels, TypeOK
  <2>4. \A m \in Names : AssetsOf(m)' = AssetsOf(m)
    BY <1>1, <2>3, AssetsKept
  <2>5. ASSUME NEW m \in Names, m # n PROVE StageOf(m)' = StageOf(m)
    <3>1. \A u \in Threads : Builds(u, m)' <=> Builds(u, m)
      BY <1>1, <1>2, <2>2, <2>5 DEF Builds
    <3>2. \A u \in Threads : Removes(u, m)' <=> Removes(u, m)
      BY <1>1, <1>2, <2>2, <2>5 DEF Removes
    <3>. QED BY <1>1, <2>5, <3>1, <3>2, StageKept
  <2>6. Builds(t, n)'
    BY <2>2 DEF Builds
  <2>7. StageOf(n)' = "building"
    BY <2>6, FactsNext
  <2>. QED BY <1>3, <2>4, <2>5, <2>7 DEF Allowed, SparesOthers
<1>. QED BY <1>4, <1>5

\* A call that changes nothing but what a thread or the runner knows.
LEMMA QuietStep ==
  ASSUME NEW n \in Names, UNCHANGED <<status, op, nic, nets, label, envs>>,
         \A m \in Names : phase'[m] = "new" <=> phase[m] = "new",
         \A u \in Threads : \/ ctx'[u] = ctx[u]
                            \/ /\ ctx'[u].rpc \notin {"Create", "Remove"}
                               /\ ctx[u].rpc \notin {"Create", "Remove"}
  PROVE  Allowed(n) /\ SparesOthers(n)
<1>1. \A u \in Threads, m \in Names : Builds(u, m)' <=> Builds(u, m)
  BY DEF Builds
<1>2. \A u \in Threads, m \in Names : Removes(u, m)' <=> Removes(u, m)
  BY DEF Removes
<1>3. \A m \in Names : StageOf(m)' = StageOf(m)
  BY <1>1, <1>2, StageKept
<1>4. \A m \in Names : AssetsOf(m)' = AssetsOf(m)
  BY AssetsKept
<1>. QED BY <1>3, <1>4 DEF Allowed, SparesOthers

LEMMA OtherCallAllowed ==
  ASSUME KInv, KInv', NEW t \in Threads, NEW n \in Names,
         CallStart(t, n) \/ CallRemove(t, n)
  PROVE  Allowed(n) /\ SparesOthers(n)
<1> USE DEF KInv, TInv, Inv, daemonVars
<1>1. /\ UNCHANGED <<status, op, nic, nets, label>> /\ phase[n] # "new"
      /\ \A m \in Names : phase'[m] = "new" <=> phase[m] = "new"
      /\ \A u \in Threads : u # t => ctx'[u] = ctx[u]
      /\ pc[t] = "idle" /\ \A m \in Names : m # n => envs'[m] = envs[m]
  BY DEF CallStart, CallRemove, Serve, TypeOK
<1>2. ctx[t].rpc = "none"
  BY <1>1 DEF CallShape, StepsOf, TypeOK
<1>3. CASE CallStart(t, n)
  BY <1>1, <1>2, <1>3, QuietStep DEF CallStart, Serve, Context, TypeOK
<1>4. CASE CallRemove(t, n) /\ envs[n] = None
  <2>1. UNCHANGED <<envs, ctx>>
    BY <1>4 DEF CallRemove, Serve, TypeOK
  <2>. QED BY <1>1, <2>1, QuietStep
<1>5. CASE CallRemove(t, n) /\ envs[n] # None
  <2>1. ctx'[t].rpc = "Remove" /\ ctx'[t].env = n /\ envs'[n] = None
    BY <1>5 DEF CallRemove, Serve, Context, TypeOK
  <2>2. \A m \in Names : AssetsOf(m)' = AssetsOf(m)
    BY <1>1, AssetsKept
  <2>3. ASSUME NEW m \in Names, m # n PROVE StageOf(m)' = StageOf(m)
    <3>1. \A u \in Threads : Builds(u, m)' <=> Builds(u, m)
      BY <1>1, <1>2, <2>1, <2>3 DEF Builds
    <3>2. \A u \in Threads : Removes(u, m)' <=> Removes(u, m)
      BY <1>1, <1>2, <2>1, <2>3 DEF Removes
    <3>. QED BY <1>1, <2>3, <3>1, <3>2, StageKept
  <2>4. Removes(t, n)'
    BY <2>1 DEF Removes
  <2>5. StageOf(n) = "usable" /\ StageOf(n)' = "ending"
    BY <1>5, <2>4, StageFacts, FactsNext
  <2>. QED BY <2>2, <2>3, <2>5 DEF Allowed, SparesOthers
<1>. QED BY <1>3, <1>4, <1>5

LEMMA NextKeepsPromise ==
  ASSUME Benign
  PROVE  KInv /\ KInv' /\ [Next]_vars => [Promise!Next]_(Promise!vars)
<1> SUFFICES ASSUME KInv, KInv', [Next]_vars PROVE [Promise!Next]_(Promise!vars)
  OBVIOUS
<1>1. CASE \E t \in Threads : HandlerStep(t)
  BY <1>1, HandlerStepAllowed, AllowedStep
<1>2. CASE \E n \in Names : DaemonStep(n)
  BY <1>2, DaemonStepAllowed, AllowedStep
<1>3. ASSUME NEW n \in Names, GiveUp(n) PROVE [Promise!Next]_(Promise!vars)
  <2>1. /\ UNCHANGED <<status, op, nic, nets, label, envs, ctx>>
        /\ \A m \in Names : phase'[m] = "new" <=> phase[m] = "new"
    BY <1>3 DEF GiveUp, daemonVars, KInv, TInv, Inv, TypeOK
  <2>. QED BY <2>1, QuietStep, AllowedStep
<1>4. CASE \E t \in Threads, n \in Names : Call(t, n)
  BY <1>4, CreateCallAllowed, OtherCallAllowed, AllowedStep DEF Call
<1>5. ~Restart /\ \A n \in Names : ~OperatorStops(n) /\ ~OperatorDeletes(n)
  BY DEF Restart, OperatorStops, OperatorDeletes, Can, Benign
<1>6. CASE UNCHANGED vars
  BY <1>6 DEF vars, Promise!vars, StageOf, AssetsOf, HostClean
<1>. QED BY <1>1, <1>2, <1>3, <1>4, <1>5, <1>6 DEF Next

LEMMA InitPromises == Init => Promise!Init
<1> SUFFICES ASSUME Init PROVE Promise!Init
  OBVIOUS
<1>1. ASSUME NEW n \in Names PROVE StageOf(n) = "none" /\ AssetsOf(n) = "nothing"
  <2>1. StageOf(n) = "none"
    BY DEF Init, StageOf, NoCall, Context
  <2>2. AssetsOf(n) = "nothing"
    BY DEF Init, AssetsOf, HostClean
  <2>. QED BY <2>1, <2>2
<1>. QED BY <1>1 DEF Promise!Init

\* As long as the daemon only refuses and the set-up only fails, however
\* impatient the runner: whatever the handlers of any number of jobs do in any
\* interleaving, each environment goes through the stages JobEnvironment
\* allows.  It is offered complete, stays complete until Remove takes it off
\* the record, and when it is over nothing is left of it and nothing comes
\* back.  (That the end is reached is a matter of fairness, and TLC's.)
THEOREM EnvironmentsKeepPromise ==
  ASSUME Benign
  PROVE  Spec => Promise!Spec
  BY Reclaimed, InitPromises, NextKeepsPromise, PTL DEF Spec, Promise!Spec

\* JobEnvironment's steps keep what it says of one moment.
LEMMA SoundNext ==
  Promise!Sound /\ [Promise!Next]_(Promise!vars) => Promise!Sound'
<1> SUFFICES ASSUME Promise!Sound, [Promise!Next]_(Promise!vars) PROVE Promise!Sound'
  OBVIOUS
<1> DEFINE stages == [n \in Names |-> StageOf(n)]
           assets == [n \in Names |-> AssetsOf(n)]
           Fine(stage, asset) == /\ stage = "usable" => asset = "everything"
                                 /\ stage \in {"none", "over"} => asset = "nothing"
<1>1. stages = [n \in Names |-> stages[n]] /\ assets = [n \in Names |-> assets[n]]
  OBVIOUS
<1>2. Promise!Sound <=> \A n \in Names : Fine(stages[n], assets[n])
  BY DEF Promise!Sound
<1>3. Promise!Sound' <=> \A n \in Names : Fine(stages'[n], assets'[n])
  BY DEF Promise!Sound
<1>4. \/ stages' = stages /\ assets' = assets
      \/ \E n \in Names :
           \/ stages[n] \in {"building", "ending"} /\ stages' = stages
              /\ \E a \in Promise!Assets : assets' = [assets EXCEPT ![n] = a]
           \/ /\ stages[n] = "none" /\ assets' = assets
              /\ stages' = [stages EXCEPT ![n] = "building"]
           \/ /\ assets[n] = "everything" /\ assets' = assets
              /\ stages' = [stages EXCEPT ![n] = "usable"]
           \/ /\ stages[n] = "usable" /\ assets' = assets
              /\ stages' = [stages EXCEPT ![n] = "ending"]
           \/ /\ stages' = [stages EXCEPT ![n] = "over"]
              /\ assets' = [assets EXCEPT ![n] = "nothing"]
  BY DEF Promise!vars, Promise!Next, Promise!Begin, Promise!Rework, Promise!Offer,
         Promise!End, Promise!Finish, Promise!Move
<1> HIDE DEF stages, assets
<1>. QED BY <1>1, <1>2, <1>3, <1>4

\* What the promise comes to at any moment, under the same faults: an environment
\* that a caller may use has its instance running on its own network, and one
\* that is not begun, or over, has nothing on the host.
THEOREM EnvironmentsSound ==
  ASSUME Benign
  PROVE  Spec => []Promise!Sound
<1>1. Promise!Init => Promise!Sound
  BY DEF Promise!Init, Promise!Sound
<1>. QED BY <1>1, SoundNext, EnvironmentsKeepPromise, PTL DEF Promise!Spec


=============================================================================
