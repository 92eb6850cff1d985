------------------------- MODULE EnvironmentsProofs -------------------------
(***************************************************************************)
(* Proofs about Environments, for any sets of names, networks and threads. *)
(*                                                                         *)
(* 1. A step of a handler is local: it moves its own thread, and touches   *)
(*    the instance, network and record of its own environment (Local).     *)
(* 2. From that, the bookkeeping invariant Inv: types, what a thread holds *)
(*    at each step, whose network is whose, and SoleHandler.               *)
(***************************************************************************)
EXTENDS Environments, TLAPS

USE EnvironmentsAssumption DEF Codes, Phases, Building, TearingDown, Starting

-----------------------------------------------------------------------------
(* The inductive invariant.                                                *)

StepsOf(rpc) ==
  IF rpc = "Create" THEN Building \cup TearingDown
  ELSE IF rpc = "Remove" THEN TearingDown
  ELSE IF rpc = "Start" THEN Starting ELSE {"idle"}

\* A thread is at a step of the RPC it serves and knows what it works on.
CallShape ==
  \A t \in Threads :
    /\ pc[t] \in StepsOf(ctx[t].rpc)
    /\ ctx[t].rpc # "none" => ctx[t].env \in Names /\ ctx[t].net \in Networks
    /\ ctx[t].rpc = "none" => ctx[t].env = None

\* Networks are held, recorded and used only by the job they were made for.
Labels ==
  /\ \A t \in Threads :
       ctx[t].rpc \in {"Create", "Remove"} => label[ctx[t].net] = ctx[t].env
  /\ \A n \in Names : envs[n] # None => label[envs[n]] = n
  /\ \A n \in Names : op[n] # "none" => nic[n] \in Networks /\ label[nic[n]] = n
  /\ \A n \in Names : status[n] # "absent" => op[n] # "none"
  /\ \A w \in nets : label[w] # None

\* The plugin and the daemon have not heard of a job before its Create.
Fresh ==
  \A n \in Names : phase[n] = "new" =>
    /\ status[n] = "absent" /\ op[n] = "none" /\ envs[n] = None
    /\ \A t \in Threads : ctx[t].env # n

Inv == TypeOK /\ CallShape /\ Labels /\ Fresh /\ SoleHandler

-----------------------------------------------------------------------------
(* What a handler's step leaves alone.                                     *)

HandlerTypes ==
  /\ pc \in [Threads -> {"idle"} \cup Building \cup TearingDown \cup Starting]
  /\ ctx \in [Threads -> [rpc : {"none", "Create", "Start", "Remove"},
                          env : Names \cup {None}, net : Networks \cup {None},
                          code : Codes]]
  /\ phase \in [Names -> Phases]
  /\ told \in [Names -> Codes]

HostTypes ==
  /\ status \in [Names -> {"absent", "stopped", "running"}]
  /\ op \in [Names -> {"none", "pending", "success", "failure"}]
  /\ nic \in [Names -> Networks \cup {None}]
  /\ ephemeral \in [Names -> BOOLEAN]
  /\ nets \subseteq Networks
  /\ label \in [Networks -> Names \cup {None}]
  /\ envs \in [Names -> Networks \cup {None}]

LEMMA TypesSplit == /\ TypeOK <=> HostTypes /\ HandlerTypes
                    /\ TypeOK' <=> HostTypes' /\ HandlerTypes'
  BY DEF TypeOK, HostTypes, HandlerTypes

Finishes(t) == ctx'[t] = NoCall /\ pc'[t] = "idle"

Continues(t) ==
  /\ ctx'[t].rpc = ctx[t].rpc /\ ctx'[t].env = ctx[t].env /\ ctx'[t].net = ctx[t].net
  /\ pc'[t] \in StepsOf(ctx[t].rpc)

\* Thread t moves on within its call or ends it; the other threads stand
\* still, and no job becomes new again.
MovesOnly(t) ==
  /\ HandlerTypes'
  /\ Finishes(t) \/ Continues(t)
  /\ \A u \in Threads : u # t => pc'[u] = pc[u] /\ ctx'[u] = ctx[u]
  /\ \A n \in Names : phase'[n] = "new" => phase[n] = "new"

LEMMA GotoMoves ==
  ASSUME HandlerTypes, NEW t \in Threads,
         NEW step \in StepsOf(ctx[t].rpc), Goto(t, step)
  PROVE  MovesOnly(t)
  BY DEF HandlerTypes, Goto, MovesOnly, Continues, StepsOf

LEMMA GotoFailingMoves ==
  ASSUME HandlerTypes, NEW t \in Threads, NEW c \in Codes,
         NEW step \in StepsOf(ctx[t].rpc), GotoFailing(t, step, c)
  PROVE  MovesOnly(t)
  BY DEF HandlerTypes, GotoFailing, MovesOnly, Continues, StepsOf, Context

LEMMA AnswerMoves ==
  ASSUME HandlerTypes, NEW t \in Threads, NEW c \in Codes, Answer(t, c)
  PROVE  MovesOnly(t)
<1>1. \A p \in Phases : \A rpc : Onward(p, rpc, c) \in Phases
  BY DEF Onward
<1>2. \A p \in Phases : \A rpc : Onward(p, rpc, c) = "new" => p = "new"
  BY DEF Onward
<1>3. HandlerTypes'
  BY <1>1 DEF HandlerTypes, Answer, NoCall, Context
<1>4. \A n \in Names : phase'[n] = "new" => phase[n] = "new"
  BY <1>2 DEF HandlerTypes, Answer
<1>5. Finishes(t) /\ \A u \in Threads : u # t => pc'[u] = pc[u] /\ ctx'[u] = ctx[u]
  BY DEF HandlerTypes, Answer, Finishes
<1>. QED BY <1>3, <1>4, <1>5 DEF MovesOnly

LEMMA RestErrorCodes == \A error : RestErrorToGrpc(error) \in Codes
  BY DEF RestErrorToGrpc

LEMMA RemovalFailedMoves ==
  ASSUME HandlerTypes, NEW t \in Threads, NEW error,
         "unplug" \in StepsOf(ctx[t].rpc), RemovalFailed(t, error)
  PROVE  MovesOnly(t)
  BY GotoMoves, AnswerMoves, RestErrorCodes DEF RemovalFailed

\* What the step does to the host and to the map of records concerns the
\* thread's own environment and network only.
TouchesOwn(t) ==
  /\ label' = label
  /\ \A m \in Names : m # ctx[t].env =>
       status'[m] = status[m] /\ op'[m] = op[m] /\ nic'[m] = nic[m] /\ envs'[m] = envs[m]
  /\ \A w \in Networks : w # ctx[t].net => (w \in nets' <=> w \in nets)
  /\ LET n == ctx[t].env IN
       /\ envs'[n] = envs[n] \/ (envs'[n] = ctx[t].net /\ Finishes(t))
       /\ (op'[n] = op[n] /\ nic'[n] = nic[n]) \/ (op'[n] # "none" /\ nic'[n] = ctx[t].net)
       /\ status'[n] # "absent" => status[n] # "absent"
  /\ ctx[t].rpc \notin {"Create", "Remove"} =>
       UNCHANGED <<status, op, nic, ephemeral, nets, envs>>

Local(t) == MovesOnly(t) /\ HostTypes' /\ TouchesOwn(t)

LEMMA CreateStepLocal ==
  ASSUME TypeOK, CallShape, NEW t \in Threads, CreateStep(t)
  PROVE  Local(t) /\ ctx[t].rpc = "Create"
<1> USE DEF daemonVars
<1>0. HandlerTypes /\ HostTypes
  BY TypesSplit
<1>1. ctx[t].rpc = "Create" /\ ctx[t].env \in Names /\ ctx[t].net \in Networks
  BY DEF CallShape, StepsOf, CreateStep, CreateNetwork, RejectEphemeral, Launch,
         LaunchWait, Setup, Describe, Record, TypeOK
<1>2. StepsOf(ctx[t].rpc) = Building \cup TearingDown
  BY <1>1 DEF StepsOf
<1>3. CASE CreateNetwork(t)
  <2>1. MovesOnly(t)
    BY <1>0, <1>2, <1>3, GotoMoves, AnswerMoves, RestErrorCodes DEF CreateNetwork
  <2>2. HostTypes' /\ TouchesOwn(t)
    BY <1>0, <1>1, <1>3, <2>1 DEF CreateNetwork, HostTypes, TouchesOwn
  <2>. QED BY <1>1, <2>1, <2>2 DEF Local
<1>4. CASE RejectEphemeral(t)
  <2>1. MovesOnly(t)
    BY <1>0, <1>4, AnswerMoves DEF RejectEphemeral
  <2>2. HostTypes' /\ TouchesOwn(t)
    BY <1>0, <1>1, <1>4, <2>1 DEF RejectEphemeral, HostTypes, TouchesOwn
  <2>. QED BY <1>1, <2>1, <2>2 DEF Local
<1>5. CASE Launch(t)
  <2>1. MovesOnly(t)
    BY <1>0, <1>2, <1>5, GotoMoves, GotoFailingMoves, RestErrorCodes DEF Launch
  <2>2. HostTypes' /\ TouchesOwn(t)
    BY <1>0, <1>1, <1>5, <2>1 DEF Launch, HostTypes, TouchesOwn
  <2>. QED BY <1>1, <2>1, <2>2 DEF Local
<1>6. CASE LaunchWait(t)
  <2>1. MovesOnly(t)
    BY <1>0, <1>2, <1>6, GotoMoves, GotoFailingMoves, RestErrorCodes DEF LaunchWait
  <2>2. HostTypes' /\ TouchesOwn(t)
    BY <1>0, <1>1, <1>6, <2>1 DEF LaunchWait, HostTypes, TouchesOwn
  <2>. QED BY <1>1, <2>1, <2>2 DEF Local
<1>7. CASE Setup(t)
  <2>1. MovesOnly(t)
    BY <1>0, <1>2, <1>7, GotoMoves, GotoFailingMoves, AnswerMoves, RestErrorCodes DEF Setup
  <2>2. HostTypes' /\ TouchesOwn(t)
    BY <1>0, <1>1, <1>7, <2>1 DEF Setup, HostTypes, TouchesOwn
  <2>. QED BY <1>1, <2>1, <2>2 DEF Local
<1>8. CASE Describe(t)
  <2>1. MovesOnly(t)
    BY <1>0, <1>2, <1>8, GotoMoves, GotoFailingMoves, RestErrorCodes DEF Describe
  <2>2. HostTypes' /\ TouchesOwn(t)
    BY <1>0, <1>1, <1>8, <2>1 DEF Describe, HostTypes, TouchesOwn
  <2>. QED BY <1>1, <2>1, <2>2 DEF Local
<1>9. CASE Record(t)
  <2>1. MovesOnly(t) /\ Finishes(t)
    BY <1>0, <1>9, AnswerMoves DEF Record, Answer, Finishes, HandlerTypes
  <2>2. HostTypes' /\ TouchesOwn(t)
    BY <1>0, <1>1, <1>9, <2>1 DEF Record, HostTypes, TouchesOwn
  <2>. QED BY <1>1, <2>1, <2>2 DEF Local
<1>. QED
  BY <1>1, <1>3, <1>4, <1>5, <1>6, <1>7, <1>8, <1>9 DEF CreateStep

LEMMA StartStepLocal ==
  ASSUME TypeOK, CallShape, NEW t \in Threads, StartStep(t)
  PROVE  Local(t) /\ ctx[t].rpc = "Start"
<1> USE DEF daemonVars
<1>0. HandlerTypes /\ HostTypes
  BY TypesSplit
<1>1. ctx[t].rpc = "Start" /\ StepsOf(ctx[t].rpc) = Starting
  BY DEF CallShape, StepsOf, StartStep, StartProbe, StartContainer, TypeOK
<1>2. CASE StartProbe(t)
  <2>1. MovesOnly(t)
    BY <1>0, <1>1, <1>2, GotoMoves, AnswerMoves, RestErrorCodes DEF StartProbe
  <2>2. HostTypes' /\ TouchesOwn(t)
    BY <1>0, <1>1, <1>2, <2>1 DEF StartProbe, HostTypes, TouchesOwn
  <2>. QED BY <1>1, <2>1, <2>2 DEF Local
<1>3. CASE StartContainer(t)
  <2>1. MovesOnly(t)
    BY <1>0, <1>1, <1>3, AnswerMoves, RestErrorCodes DEF StartContainer
  <2>2. HostTypes' /\ TouchesOwn(t)
    BY <1>0, <1>1, <1>3, <2>1 DEF StartContainer, HostTypes, TouchesOwn
  <2>. QED BY <1>1, <2>1, <2>2 DEF Local
<1>. QED BY <1>2, <1>3 DEF StartStep

LEMMA RemoveStepLocal ==
  ASSUME TypeOK, CallShape, NEW t \in Threads, RemoveStep(t)
  PROVE  Local(t) /\ ctx[t].rpc \in {"Create", "Remove"}
<1> USE DEF daemonVars
<1>0. HandlerTypes /\ HostTypes
  BY TypesSplit
<1>1. /\ ctx[t].rpc \in {"Create", "Remove"}
      /\ ctx[t].env \in Names /\ ctx[t].net \in Networks
  BY DEF CallShape, StepsOf, RemoveStep, Cleanup, Probe, Stop, Delete, DeleteWait,
         Unplug, TypeOK
<1>2. TearingDown \subseteq StepsOf(ctx[t].rpc)
  BY <1>1 DEF StepsOf
<1>3. CASE Cleanup(t)
  <2>1. MovesOnly(t)
    BY <1>0, <1>2, <1>3, GotoMoves, AnswerMoves DEF Cleanup
  <2>2. HostTypes' /\ TouchesOwn(t)
    BY <1>0, <1>1, <1>3, <2>1 DEF Cleanup, HostTypes, TouchesOwn
  <2>. QED BY <1>1, <2>1, <2>2 DEF Local
<1>4. CASE Probe(t)
  <2>1. MovesOnly(t)
    BY <1>0, <1>2, <1>4, GotoMoves, RemovalFailedMoves DEF Probe
  <2>2. HostTypes' /\ TouchesOwn(t)
    BY <1>0, <1>1, <1>4, <2>1 DEF Probe, HostTypes, TouchesOwn
  <2>. QED BY <1>1, <2>1, <2>2 DEF Local
<1>5. CASE Stop(t)
  <2>1. MovesOnly(t)
    BY <1>0, <1>2, <1>5, GotoMoves, RemovalFailedMoves DEF Stop
  <2>2. HostTypes' /\ TouchesOwn(t)
    BY <1>0, <1>1, <1>5, <2>1 DEF Stop, StopInstance, HostTypes, TouchesOwn
  <2>. QED BY <1>1, <2>1, <2>2 DEF Local
<1>6. CASE Delete(t)
  <2>1. MovesOnly(t)
    BY <1>0, <1>2, <1>6, GotoMoves, RemovalFailedMoves DEF Delete
  <2>2. HostTypes' /\ TouchesOwn(t)
    BY <1>0, <1>1, <1>6, <2>1 DEF Delete, HostTypes, TouchesOwn
  <2>. QED BY <1>1, <2>1, <2>2 DEF Local
<1>7. CASE DeleteWait(t)
  <2>1. MovesOnly(t)
    BY <1>0, <1>2, <1>7, GotoMoves, RemovalFailedMoves DEF DeleteWait
  <2>2. HostTypes' /\ TouchesOwn(t)
    BY <1>0, <1>1, <1>7, <2>1 DEF DeleteWait, HostTypes, TouchesOwn
  <2>. QED BY <1>1, <2>1, <2>2 DEF Local
<1>8. CASE Unplug(t)
  <2>1. MovesOnly(t)
    BY <1>0, <1>2, <1>8, AnswerMoves DEF Unplug, HandlerTypes
  <2>2. HostTypes' /\ TouchesOwn(t)
    BY <1>0, <1>1, <1>8, <2>1 DEF Unplug, HostTypes, TouchesOwn
  <2>. QED BY <1>1, <2>1, <2>2 DEF Local
<1>. QED
  BY <1>1, <1>3, <1>4, <1>5, <1>6, <1>7, <1>8 DEF RemoveStep

LEMMA HandlerStepLocal ==
  ASSUME TypeOK, CallShape, NEW t \in Threads, HandlerStep(t)
  PROVE  Local(t)
  BY CreateStepLocal, StartStepLocal, RemoveStepLocal DEF HandlerStep

-----------------------------------------------------------------------------
(* Every step preserves Inv.                                               *)

LEMMA InitInv == Init => Inv
<1> SUFFICES ASSUME Init PROVE Inv
  OBVIOUS
<1>1. TypeOK
  BY DEF Init, TypeOK, NoCall, Context
<1>2. CallShape /\ Fresh
  BY DEF Init, CallShape, Fresh, StepsOf, NoCall, Context
<1>3. Labels /\ SoleHandler
  BY DEF Init, Labels, SoleHandler, WorksOn, NoCall, Context
<1>. QED BY <1>1, <1>2, <1>3 DEF Inv

LEMMA HandlerStepInv ==
  ASSUME Inv, NEW t \in Threads, HandlerStep(t)
  PROVE  Inv'
<1> USE DEF Inv
<1>1. MovesOnly(t) /\ HostTypes' /\ TouchesOwn(t)
  BY HandlerStepLocal DEF Local
<1>2. TypeOK'
  BY <1>1, TypesSplit DEF MovesOnly
<1>3. CallShape'
  BY <1>1 DEF CallShape, MovesOnly, Finishes, Continues, StepsOf, NoCall, Context
<1>4. ASSUME NEW u \in Threads, ctx'[u].rpc # "none"
      PROVE  ctx'[u].rpc = ctx[u].rpc /\ ctx'[u].env = ctx[u].env /\ ctx'[u].net = ctx[u].net
  BY <1>1, <1>4 DEF MovesOnly, Finishes, Continues, NoCall, Context
<1>5. Labels'
  <2>1. \A u \in Threads :
          ctx'[u].rpc \in {"Create", "Remove"} => label'[ctx'[u].net] = ctx'[u].env
    BY <1>1, <1>4 DEF Labels, TouchesOwn
  <2>2. \A n \in Names : envs'[n] # None => label'[envs'[n]] = n
    BY <1>1 DEF Labels, TouchesOwn, CallShape, StepsOf
  <2>3. \A n \in Names : op'[n] # "none" => nic'[n] \in Networks /\ label'[nic'[n]] = n
    BY <1>1 DEF Labels, TouchesOwn, CallShape
  <2>4. \A n \in Names : status'[n] # "absent" => op'[n] # "none"
    BY <1>1 DEF Labels, TouchesOwn
  <2>5. \A w \in nets' : label'[w] # None
    BY <1>1 DEF Labels, TouchesOwn, CallShape, HostTypes
  <2>. QED BY <2>1, <2>2, <2>3, <2>4, <2>5 DEF Labels
<1>6. Fresh'
  BY <1>1, <1>3, <1>4 DEF Fresh, TouchesOwn, MovesOnly, CallShape
<1>7. SoleHandler'
  BY <1>1, <1>4 DEF SoleHandler, WorksOn, TouchesOwn, Finishes, NoCall, Context
<1>. QED BY <1>2, <1>3, <1>5, <1>6, <1>7

LEMMA DaemonStepInv ==
  ASSUME Inv, NEW n \in Names,
         DaemonStep(n) \/ OperatorStops(n) \/ OperatorDeletes(n)
  PROVE  Inv'
<1> USE DEF Inv, DaemonStep, OpVisible, OpSucceeds, OpFails, OperatorStops,
            OperatorDeletes, StopInstance, handlerVars
<1>1. TypeOK'
  BY DEF TypeOK
<1>2. CallShape' /\ SoleHandler'
  BY DEF CallShape, SoleHandler, WorksOn
<1>3. Labels'
  BY DEF Labels, TypeOK
<1>4. Fresh'
  BY DEF Fresh, Labels, TypeOK
<1>. QED BY <1>1, <1>2, <1>3, <1>4

LEMMA CallInv ==
  ASSUME Inv, NEW t \in Threads, NEW n \in Names, Call(t, n)
  PROVE  Inv'
<1> USE DEF Inv, daemonVars
<1>1. CASE RejectCreate(t, n)
  BY <1>1 DEF RejectCreate, TypeOK, CallShape, Labels, Fresh, SoleHandler, WorksOn
<1>2. CASE CallCreate(t, n)
  <2>1. PICK w \in Networks : /\ label[w] = None
                              /\ label' = [label EXCEPT ![w] = n]
                              /\ Serve(t, "network", "Create", n, w)
    BY <1>2 DEF CallCreate
  <2>2. /\ pc' = [pc EXCEPT ![t] = "network"]
        /\ ctx' = [ctx EXCEPT ![t] = Context("Create", n, w, "OK")]
        /\ phase[n] = "new" /\ phase' = [phase EXCEPT ![n] = "creating"]
        /\ UNCHANGED <<status, op, nic, ephemeral, nets, envs, told>>
    BY <1>2, <2>1 DEF CallCreate, Serve
  <2>3. TypeOK'
    BY <2>1, <2>2 DEF TypeOK, Context
  <2>4. CallShape'
    BY <2>2 DEF CallShape, StepsOf, Context, TypeOK
  <2>5. Labels'
    BY <2>1, <2>2 DEF Labels, CallShape, Context, TypeOK
  <2>6. Fresh'
    BY <2>2 DEF Fresh, Context, TypeOK
  <2>7. SoleHandler'
    BY <2>2 DEF SoleHandler, Fresh, WorksOn, Context, TypeOK
  <2>. QED BY <2>3, <2>4, <2>5, <2>6, <2>7
<1>3. CASE CallStart(t, n)
  <2>1. CASE envs[n] = None
    BY <1>3, <2>1
    DEF CallStart, TypeOK, CallShape, Labels, Fresh, SoleHandler, WorksOn, Serve
  <2>2. CASE envs[n] # None
    <3>1. /\ pc' = [pc EXCEPT ![t] = "start_probe"]
          /\ ctx' = [ctx EXCEPT ![t] = Context("Start", n, envs[n], "OK")]
          /\ phase[n] = "created"
          /\ UNCHANGED <<status, op, nic, ephemeral, nets, label, envs, phase, told>>
      BY <1>3, <2>2 DEF CallStart, Serve
    <3>2. TypeOK'
      BY <3>1, <2>2 DEF TypeOK, Context
    <3>3. CallShape'
      BY <3>1, <2>2 DEF CallShape, StepsOf, Context, TypeOK
    <3>4. Labels' /\ Fresh' /\ SoleHandler'
      BY <3>1 DEF Labels, Fresh, SoleHandler, WorksOn, Context, TypeOK
    <3>. QED BY <3>2, <3>3, <3>4
  <2>. QED BY <2>1, <2>2
<1>4. CASE CallRemove(t, n)
  <2>1. CASE envs[n] = None
    <3>1. /\ phase[n] # "new" /\ phase' = [phase EXCEPT ![n] = "removed"]
          /\ told' = [told EXCEPT ![n] = "OK"]
          /\ envs' = [envs EXCEPT ![n] = None]
          /\ UNCHANGED <<status, op, nic, ephemeral, nets, label, pc, ctx>>
      BY <1>4, <2>1 DEF CallRemove, Serve
    <3>2. envs' = envs
      BY <2>1, <3>1 DEF TypeOK
    <3>. QED
      BY <3>1, <3>2 DEF TypeOK, CallShape, Labels, Fresh, SoleHandler, WorksOn
  <2>2. CASE envs[n] # None
    <3>1. /\ pc' = [pc EXCEPT ![t] = "cleanup"]
          /\ ctx' = [ctx EXCEPT ![t] = Context("Remove", n, envs[n], "OK")]
          /\ envs' = [envs EXCEPT ![n] = None]
          /\ phase[n] # "new" /\ phase' = [phase EXCEPT ![n] = "removing"]
          /\ UNCHANGED <<status, op, nic, ephemeral, nets, label, told>>
      BY <1>4, <2>2 DEF CallRemove, Serve
    <3>2. TypeOK'
      BY <3>1, <2>2 DEF TypeOK, Context
    <3>3. CallShape'
      BY <3>1, <2>2 DEF CallShape, StepsOf, Context, TypeOK
    <3>4. Labels' /\ Fresh'
      BY <3>1, <2>2 DEF Labels, Fresh, Context, TypeOK
    <3>5. SoleHandler'
      BY <3>1, <2>2 DEF SoleHandler, WorksOn, Context, TypeOK
    <3>. QED BY <3>2, <3>3, <3>4, <3>5
  <2>. QED BY <2>1, <2>2
<1>. QED BY <1>1, <1>2, <1>3, <1>4 DEF Call

LEMMA NextInv == Inv /\ [Next]_vars => Inv'
<1> SUFFICES ASSUME Inv, [Next]_vars PROVE Inv'
  OBVIOUS
<1>1. CASE \E t \in Threads : HandlerStep(t)
  BY <1>1, HandlerStepInv
<1>2. CASE \E n \in Names : DaemonStep(n) \/ OperatorStops(n) \/ OperatorDeletes(n)
  BY <1>2, DaemonStepInv
<1>3. CASE \E n \in Names : GiveUp(n)
  BY <1>3 DEF GiveUp, Inv, TypeOK, CallShape, Labels, Fresh, SoleHandler, WorksOn, daemonVars
<1>4. CASE \E t \in Threads, n \in Names : Call(t, n)
  BY <1>4, CallInv
<1>5. CASE Restart
  BY <1>5 DEF Restart, Inv, TypeOK, CallShape, Labels, Fresh, SoleHandler, WorksOn,
              NoCall, Context, StepsOf, daemonVars
<1>6. CASE UNCHANGED vars
  BY <1>6 DEF vars, Inv, TypeOK, CallShape, Labels, Fresh, SoleHandler, WorksOn
<1>. QED
  BY <1>1, <1>2, <1>3, <1>4, <1>5, <1>6 DEF Next

LEMMA Invariant == Spec => []Inv
  BY InitInv, NextInv, PTL DEF Spec

-----------------------------------------------------------------------------
(* What holds whatever fails.                                              *)

\* Every variable keeps its type: no handler, in any interleaving and under
\* any fault, leaves the map, a call or the host in a shape nobody expects.
THEOREM TypeCorrect == Spec => []TypeOK
  BY Invariant, PTL DEF Inv

\* Create's record-last and Remove's pop-first under the lock leave at most
\* one handler at work on an environment, and none on a recorded one.
THEOREM SoleHandlers == Spec => []SoleHandler
  BY Invariant, PTL DEF Inv

\* No two jobs share a bridge, for any number of concurrent Creates: each
\* draws a network name of its own and nothing reassigns it.
THEOREM Isolated == Spec => []Isolation
<1>1. Inv => Isolation
  BY DEF Inv, Labels, Isolation
<1>. QED BY <1>1, Invariant, PTL

-----------------------------------------------------------------------------
(* Handlers come to an end, as far as that is a matter of safety: each     *)
(* step descends, and the one step that waits has something to wait for.   *)

LEMMA HandlerDescends ==
  ASSUME Inv, NEW t \in Threads, HandlerStep(t)
  PROVE  StepsLeft[pc'[t]] < StepsLeft[pc[t]]
<1>1. pc \in [Threads -> {"idle"} \cup Building \cup TearingDown \cup Starting]
  BY DEF Inv, TypeOK
<1> USE <1>1 DEF Goto, GotoFailing, Answer, RemovalFailed, StepsLeft
<1>2. CASE CreateNetwork(t) \/ RejectEphemeral(t) \/ Launch(t) \/ LaunchWait(t)
  BY <1>2 DEF CreateNetwork, RejectEphemeral, Launch, LaunchWait
<1>3. CASE Setup(t) \/ Describe(t) \/ Record(t)
  BY <1>3 DEF Setup, Describe, Record
<1>4. CASE StartStep(t)
  BY <1>4 DEF StartStep, StartProbe, StartContainer
<1>5. CASE Cleanup(t) \/ Probe(t) \/ Stop(t)
  BY <1>5 DEF Cleanup, Probe, Stop
<1>6. CASE Delete(t) \/ DeleteWait(t) \/ Unplug(t)
  BY <1>6 DEF Delete, DeleteWait, Unplug
<1>. QED BY <1>2, <1>3, <1>4, <1>5, <1>6 DEF HandlerStep, CreateStep, RemoveStep

\* Nobody but its own handler moves a call, save that a restart ends it.
LEMMA OthersStandStill ==
  ASSUME Inv, [Next]_vars, NEW t \in Threads, pc[t] # "idle", ~HandlerStep(t)
  PROVE  pc'[t] \in {pc[t], "idle"}
<1>1. ASSUME NEW u \in Threads, HandlerStep(u) PROVE pc'[t] = pc[t]
  BY <1>1, HandlerStepLocal DEF Inv, Local, MovesOnly
<1>2. ASSUME NEW u \in Threads, NEW n \in Names, Call(u, n) PROVE pc'[t] = pc[t]
  BY <1>2 DEF Call, RejectCreate, CallCreate, CallStart, CallRemove, Serve, Inv, TypeOK
<1>3. CASE Restart
  BY <1>3 DEF Restart
<1>4. ASSUME NEW n \in Names,
             DaemonStep(n) \/ OperatorStops(n) \/ OperatorDeletes(n) \/ GiveUp(n)
      PROVE  UNCHANGED pc
  BY <1>4 DEF DaemonStep, OpVisible, OpSucceeds, OpFails, OperatorStops, OperatorDeletes,
              GiveUp, handlerVars
<1>5. CASE UNCHANGED vars
  BY <1>5 DEF vars
<1>. QED BY <1>1, <1>2, <1>3, <1>4, <1>5 DEF Next

\* Every handler takes at most twelve steps, whatever fails and whoever
\* interferes: none of its retries and clean-ups leads back to an earlier step.
THEOREM CallsDescend == Spec => HandlersDescend
<1>1. Inv /\ [Next]_vars =>
        [\A t \in Threads :
           /\ HandlerStep(t) => StepsLeft[pc'[t]] < StepsLeft[pc[t]]
           /\ pc[t] # "idle" /\ ~HandlerStep(t) => pc'[t] \in {pc[t], "idle"}]_vars
  BY HandlerDescends, OthersStandStill
<1>. QED BY <1>1, Invariant, PTL DEF Spec, HandlersDescend

\* A launch is the first operation of its instance.
Waits ==
  /\ \A t \in Threads : pc[t] \in {"network", "launch"} => op[ctx[t].env] = "none"
  /\ WaitsCanEnd

LEMMA HandlerWaits ==
  ASSUME Inv, NEW t \in Threads, HandlerStep(t)
  PROVE  LET n == ctx[t].env IN
         /\ \A m \in Names : status'[m] = "running" => status[m] = "running"
         /\ pc'[t] # "network" /\ (pc'[t] = "launch" => pc[t] = "network" /\ UNCHANGED op)
         /\ \/ UNCHANGED <<op, nic>> /\ pc'[t] # "launching"
            \/ /\ pc[t] = "launch" /\ pc'[t] = "launching"
               /\ op' = [op EXCEPT ![n] = "pending"] /\ nic' = [nic EXCEPT ![n] = ctx[t].net]
<1>1. /\ pc \in [Threads -> {"idle"} \cup Building \cup TearingDown \cup Starting]
      /\ status \in [Names -> {"absent", "stopped", "running"}]
  BY DEF Inv, TypeOK
<1> USE <1>1 DEF Goto, GotoFailing, Answer, RemovalFailed, daemonVars
<1>2. CASE CreateNetwork(t) \/ RejectEphemeral(t) \/ LaunchWait(t)
  BY <1>2 DEF CreateNetwork, RejectEphemeral, LaunchWait
<1>3. CASE Launch(t)
  BY <1>3 DEF Launch
<1>4. CASE Setup(t) \/ Describe(t) \/ Record(t)
  BY <1>4 DEF Setup, Describe, Record
<1>5. CASE StartStep(t)
  BY <1>5 DEF StartStep, StartProbe, StartContainer
<1>6. CASE Cleanup(t) \/ Probe(t) \/ Delete(t) \/ Unplug(t)
  BY <1>6 DEF Cleanup, Probe, Delete, Unplug
<1>7. CASE Stop(t) \/ DeleteWait(t)
  <2>1. UNCHANGED <<op, nic>> /\ pc'[t] \in {"idle", "delete", "unplug"}
    BY <1>7 DEF Stop, DeleteWait
  <2>2. \A m \in Names : status'[m] = "running" => status[m] = "running"
    BY <1>7 DEF Stop, StopInstance, DeleteWait
  <2>. QED BY <2>1, <2>2
<1>. QED BY <1>2, <1>3, <1>4, <1>5, <1>6, <1>7 DEF HandlerStep, CreateStep, RemoveStep

LEMMA NextWaits == Inv /\ Waits /\ [Next]_vars => Waits'
<1> SUFFICES ASSUME Inv, Waits, [Next]_vars PROVE Waits'
  OBVIOUS
<1> USE DEF Inv, Waits, WaitsCanEnd, daemonVars, handlerVars
<1>1. ASSUME NEW t \in Threads, HandlerStep(t) PROVE Waits'
  <2>1. MovesOnly(t) /\ TouchesOwn(t) /\ HostTypes
    BY <1>1, HandlerStepLocal, TypesSplit DEF Local
  <2>2. ASSUME NEW u \in Threads, pc'[u] \in {"network", "launch", "launching"}
        PROVE  /\ ctx'[u].env = ctx[u].env /\ ctx'[u].net = ctx[u].net
               /\ ctx[u].env \in Names /\ ctx[u].rpc = "Create"
    BY <2>1, <2>2 DEF MovesOnly, Finishes, Continues, CallShape, StepsOf
  <2>3. ASSUME NEW u \in Threads, u # t, pc'[u] \in {"network", "launch", "launching"}
        PROVE  op'[ctx[u].env] = op[ctx[u].env] /\ nic'[ctx[u].env] = nic[ctx[u].env]
               /\ pc'[u] = pc[u]
    <3>1. ctx[t].rpc \in {"Create", "Remove"} => ctx[u].env # ctx[t].env
      BY <2>2, <2>3 DEF SoleHandler, WorksOn
    <3>. QED BY <2>1, <2>2, <2>3, <3>1 DEF TouchesOwn, MovesOnly
  <2>4. ASSUME NEW u \in Threads, pc'[u] \in {"network", "launch"}
        PROVE  op'[ctx'[u].env] = "none"
    <3>1. CASE u = t
      BY <1>1, <2>2, <2>4, <3>1, HandlerWaits
    <3>2. CASE u # t
      BY <2>2, <2>3, <2>4, <3>2
    <3>. QED BY <3>1, <3>2
  <2>5. ASSUME NEW u \in Threads, pc'[u] = "launching"
        PROVE  op'[ctx'[u].env] # "none" /\ nic'[ctx'[u].env] = ctx'[u].net
    <3>1. CASE u = t
      BY <1>1, <2>1, <2>2, <2>5, <3>1, HandlerWaits DEF HostTypes
    <3>2. CASE u # t
      BY <2>2, <2>3, <2>5, <3>2
    <3>. QED BY <3>1, <3>2
  <2>6. ASSUME NEW n \in Names, op'[n] = "pending" PROVE status'[n] # "running"
    <3>1. CASE op'[n] = op[n]
      BY <1>1, <2>6, <3>1, HandlerWaits
    <3>2. CASE op'[n] # op[n]
      <4>1. n = ctx[t].env /\ pc[t] = "launch"
        BY <1>1, <2>1, <2>6, <3>2, HandlerWaits DEF HostTypes
      <4>2. status[n] = "absent"
        BY <4>1 DEF Labels
      <4>. QED BY <1>1, <4>2, HandlerWaits
    <3>. QED BY <3>1, <3>2
  <2>. QED BY <2>4, <2>5, <2>6
<1>2. ASSUME NEW n \in Names, DaemonStep(n) PROVE Waits'
  <2>1. /\ op[n] = "pending" /\ op'[n] # "none" /\ UNCHANGED <<nic, pc, ctx>>
        /\ op'[n] = "pending" => status'[n] # "running"
        /\ \A m \in Names : m # n => status'[m] = status[m] /\ op'[m] = op[m]
    BY <1>2 DEF DaemonStep, OpVisible, OpSucceeds, OpFails, TypeOK
  <2>2. \A t \in Threads :
          pc[t] \in {"network", "launch", "launching"} => ctx[t].env \in Names
    BY DEF CallShape, StepsOf
  <2>. QED BY <2>1, <2>2
<1>3. ASSUME NEW n \in Names, OperatorStops(n) \/ OperatorDeletes(n) PROVE Waits'
  <2>1. /\ UNCHANGED <<op, nic, pc, ctx>>
        /\ \A m \in Names : status'[m] = "running" => status[m] = "running"
    BY <1>3 DEF OperatorStops, OperatorDeletes, StopInstance, TypeOK
  <2>. QED BY <2>1
<1>4. CASE \E n \in Names : GiveUp(n)
  BY <1>4 DEF GiveUp
<1>5. ASSUME NEW t \in Threads, NEW n \in Names, Call(t, n) PROVE Waits'
  <2>1. UNCHANGED <<status, op, nic>>
    BY <1>5 DEF Call, RejectCreate, CallCreate, CallStart, CallRemove
  <2>2. \A u \in Threads : \/ ctx'[u] = ctx[u] /\ pc'[u] = pc[u]
                           \/ pc'[u] \notin {"network", "launch", "launching"}
                           \/ pc'[u] = "network" /\ ctx'[u].env = n /\ phase[n] = "new"
    BY <1>5 DEF Call, RejectCreate, CallCreate, CallStart, CallRemove, Serve, Context, TypeOK
  <2>. QED BY <2>1, <2>2 DEF Fresh
<1>6. CASE Restart
  BY <1>6 DEF Restart
<1>7. CASE UNCHANGED vars
  BY <1>7 DEF vars
<1>. QED BY <1>1, <1>2, <1>3, <1>4, <1>5, <1>6, <1>7 DEF Next

\* A handler that waits for its create operation waits for something that is
\* there and can still end, even when an operator stops or deletes instances,
\* connections break and the plugin restarts.
THEOREM LaunchesCanEnd == Spec => []WaitsCanEnd
<1>1. Init => Waits
  BY DEF Init, Waits, WaitsCanEnd
<1>2. Waits => WaitsCanEnd
  BY DEF Waits
<1>. QED BY <1>1, <1>2, NextWaits, Invariant, PTL DEF Spec

-----------------------------------------------------------------------------
(* A recorded environment is whole, as long as no operator interferes.     *)

\* What Create knows of its instance at each of its steps.
Knows(t) ==
  LET n == ctx[t].env IN
  /\ pc[t] \in {"network", "launch"} => op[n] = "none"
  /\ pc[t] = "launching" =>
       nic[n] = ctx[t].net /\ (op[n] = "success" => status[n] = "running")
  /\ pc[t] \in {"setup", "describe", "record"} =>
       nic[n] = ctx[t].net /\ op[n] = "success" /\ status[n] = "running"

Whole(n) == nic[n] = envs[n] /\ op[n] = "success" /\ status[n] = "running"

Grounded ==
  /\ \A t \in Threads : ctx[t].rpc = "Create" => Knows(t)
  /\ \A n \in Names : envs[n] # None => Whole(n)
  /\ \A n \in Names : status[n] # "absent" => nic[n] \in nets

LEMMA KnowsSelf ==
  ASSUME Inv, Grounded, NEW t \in Threads, HandlerStep(t), ctx'[t].rpc = "Create"
  PROVE  Knows(t)'
<1> USE DEF Inv, daemonVars
<1>0. MovesOnly(t) /\ TypeOK /\ TouchesOwn(t)
  BY HandlerStepLocal DEF Local
<1>1. ctx'[t].env = ctx[t].env /\ ctx'[t].net = ctx[t].net /\ ctx[t].rpc = "Create"
  BY <1>0 DEF MovesOnly, Finishes, Continues, NoCall, Context
<1>2. Knows(t) /\ ctx[t].env \in Names
  BY <1>1 DEF Grounded, CallShape
<1>3. pc'[t] # "idle"
  BY <1>0, <1>1 DEF MovesOnly, Finishes, Continues, StepsOf, NoCall, Context
<1>4. CASE pc'[t] \in TearingDown
  BY <1>4 DEF Knows
<1>5. CASE pc'[t] \in Building
  <2>1. CreateStep(t)
    BY <1>1, <1>5, StartStepLocal
    DEF HandlerStep, RemoveStep, Cleanup, Probe, Stop, Delete, DeleteWait, Unplug,
        RemovalFailed, Goto, Answer, TypeOK
  <2>2. \/ CreateNetwork(t) /\ pc'[t] = "launch" /\ UNCHANGED op
        \/ /\ pc'[t] = "launching" /\ op' = [op EXCEPT ![ctx[t].env] = "pending"]
           /\ nic' = [nic EXCEPT ![ctx[t].env] = ctx[t].net]
        \/ /\ pc[t] = "launching" /\ pc'[t] = "setup" /\ op[ctx[t].env] = "success"
           /\ UNCHANGED <<status, op, nic>>
        \/ /\ pc[t] \in {"setup", "describe"} /\ pc'[t] \in {"describe", "record"}
           /\ UNCHANGED <<status, op, nic>>
    BY <2>1, <1>3, <1>5
    DEF CreateStep, CreateNetwork, RejectEphemeral, Launch, LaunchWait, Setup, Describe,
        Record, Goto, GotoFailing, Answer, TypeOK
  <2>3. CASE CreateNetwork(t) /\ pc'[t] = "launch" /\ UNCHANGED op
    BY <2>3, <1>1, <1>2 DEF Knows, CreateNetwork
  <2>4. CASE /\ pc'[t] = "launching" /\ op' = [op EXCEPT ![ctx[t].env] = "pending"]
             /\ nic' = [nic EXCEPT ![ctx[t].env] = ctx[t].net]
    BY <2>4, <1>1, <1>2 DEF Knows, TypeOK
  <2>5. CASE /\ pc[t] = "launching" /\ pc'[t] = "setup" /\ op[ctx[t].env] = "success"
             /\ UNCHANGED <<status, op, nic>>
    BY <2>5, <1>1, <1>2 DEF Knows
  <2>6. CASE /\ pc[t] \in {"setup", "describe"} /\ pc'[t] \in {"describe", "record"}
             /\ UNCHANGED <<status, op, nic>>
    BY <2>6, <1>1, <1>2 DEF Knows
  <2>. QED BY <2>2, <2>3, <2>4, <2>5, <2>6
<1>. QED
  BY <1>0, <1>1, <1>4, <1>5 DEF MovesOnly, Finishes, Continues, StepsOf, NoCall, Context

\* A step of t leaves alone what another thread knows: they work on different
\* environments, or t only reads.
LEMMA KnowsOther ==
  ASSUME Inv, Grounded, NEW t \in Threads, HandlerStep(t),
         NEW u \in Threads, u # t, ctx'[u].rpc = "Create"
  PROVE  Knows(u)'
<1> USE DEF Inv
<1>1. MovesOnly(t) /\ TouchesOwn(t)
  BY HandlerStepLocal DEF Local
<1>2. ctx'[u] = ctx[u] /\ pc'[u] = pc[u] /\ Knows(u) /\ ctx[u].env \in Names
  BY <1>1 DEF MovesOnly, Grounded, CallShape
<1>3. CASE ctx[t].rpc \in {"Create", "Remove"}
  <2>1. ctx[t].env # ctx[u].env
    BY <1>2, <1>3 DEF SoleHandler, WorksOn
  <2>. QED BY <1>1, <1>2, <2>1 DEF TouchesOwn, Knows
<1>4. CASE ctx[t].rpc \notin {"Create", "Remove"}
  BY <1>1, <1>2, <1>4 DEF TouchesOwn, Knows
<1>. QED BY <1>3, <1>4

LEMMA HandlerStepGrounded ==
  ASSUME Inv, Grounded, NEW t \in Threads, HandlerStep(t)
  PROVE  Grounded'
<1> USE DEF Inv, daemonVars
<1>1. MovesOnly(t) /\ TouchesOwn(t) /\ HostTypes' /\ HostTypes
  BY HandlerStepLocal, TypesSplit DEF Local
<1>2. \A u \in Threads : ctx'[u].rpc = "Create" => Knows(u)'
  BY KnowsSelf, KnowsOther
<1>3. ASSUME NEW n \in Names, envs'[n] # None PROVE Whole(n)'
  <2>1. CASE n # ctx[t].env \/ ctx[t].rpc \notin {"Create", "Remove"}
    BY <1>1, <1>3, <2>1 DEF TouchesOwn, Grounded, Whole
  <2>2. CASE n = ctx[t].env /\ ctx[t].rpc \in {"Create", "Remove"}
    <3>1. envs[n] = None
      BY <2>2 DEF SoleHandler, WorksOn
    <3>2. Record(t)
      BY <1>3, <3>1
      DEF HandlerStep, CreateStep, StartStep, RemoveStep, CreateNetwork, RejectEphemeral,
          Launch, LaunchWait, Setup, Describe, StartProbe, StartContainer, Cleanup, Probe,
          Stop, Delete, DeleteWait, Unplug
    <3>3. Knows(t) /\ pc[t] = "record"
      BY <3>2 DEF Grounded, Record, CallShape, StepsOf
    <3>. QED BY <2>2, <3>2, <3>3 DEF Record, Knows, Whole, TypeOK
  <2>. QED BY <2>1, <2>2
<1>4. ASSUME NEW n \in Names, status'[n] # "absent" PROVE nic'[n] \in nets'
  <2>1. status[n] # "absent" /\ op[n] # "none" /\ nic[n] \in nets /\ nic[n] \in Networks
        /\ label[nic[n]] = n
    BY <1>1, <1>4 DEF TouchesOwn, Grounded, Labels
  <2>2. CASE n # ctx[t].env \/ ctx[t].rpc \notin {"Create", "Remove"}
    BY <1>1, <2>1, <2>2 DEF TouchesOwn, Labels
  <2>3. CASE n = ctx[t].env /\ ctx[t].rpc \in {"Create", "Remove"}
    <3>1. ~Launch(t)
      BY <2>1, <2>3 DEF Launch, Grounded, Knows, CallShape, StepsOf
    <3>2. UNCHANGED nic /\ (UNCHANGED nets \/ CreateNetwork(t) \/ Unplug(t))
      BY <3>1
      DEF HandlerStep, CreateStep, StartStep, RemoveStep, CreateNetwork, RejectEphemeral,
          Launch, LaunchWait, Setup, Describe, Record, StartProbe, StartContainer, Cleanup,
          Probe, Stop, Delete, DeleteWait, Unplug
    <3>. QED BY <2>1, <2>3, <3>2 DEF CreateNetwork, Unplug, InUse
  <2>. QED BY <2>2, <2>3
<1>. QED BY <1>2, <1>3, <1>4 DEF Grounded

LEMMA NextGrounded ==
  ASSUME "operator" \notin Faults
  PROVE  Inv /\ Grounded /\ [Next]_vars => Grounded'
<1> SUFFICES ASSUME Inv, Grounded, [Next]_vars PROVE Grounded'
  OBVIOUS
<1> USE DEF Inv, daemonVars, handlerVars
<1>1. CASE \E t \in Threads : HandlerStep(t)
  BY <1>1, HandlerStepGrounded
<1>2. ASSUME NEW n \in Names, DaemonStep(n) PROVE Grounded'
  <2>1. op[n] = "pending" /\ UNCHANGED <<nic, nets, envs, pc, ctx>>
    BY <1>2 DEF DaemonStep, OpVisible, OpSucceeds, OpFails
  <2>2. /\ op'[n] = "success" => status'[n] = "running"
        /\ \A m \in Names : m # n => status'[m] = status[m] /\ op'[m] = op[m]
        /\ status'[n] # "absent" => nic[n] \in nets
        /\ op'[n] # "none"
    BY <1>2, <2>1 DEF DaemonStep, OpVisible, OpSucceeds, OpFails, TypeOK, Grounded
  <2>3. \A t \in Threads : ctx[t].rpc = "Create" => Knows(t)'
    BY <2>1, <2>2 DEF Grounded, Knows, CallShape
  <2>. QED BY <2>1, <2>2, <2>3 DEF Grounded, Whole
<1>3. CASE \E n \in Names : OperatorStops(n) \/ OperatorDeletes(n)
  BY <1>3 DEF OperatorStops, OperatorDeletes, Can
<1>4. CASE \E n \in Names : GiveUp(n)
  BY <1>4 DEF GiveUp, Grounded, Knows, Whole
<1>5. ASSUME NEW t \in Threads, NEW n \in Names, Call(t, n) PROVE Grounded'
  <2>1. UNCHANGED <<status, op, nic, nets>>
    BY <1>5 DEF Call, RejectCreate, CallCreate, CallStart, CallRemove
  <2>2. \A m \in Names : envs'[m] # None => envs'[m] = envs[m]
    BY <1>5 DEF Call, RejectCreate, CallCreate, CallStart, CallRemove, TypeOK
  <2>3. ASSUME NEW u \in Threads, ctx'[u].rpc = "Create" PROVE Knows(u)'
    <3>1. CASE ctx'[u] = ctx[u] /\ pc'[u] = pc[u]
      BY <2>1, <2>3, <3>1 DEF Grounded, Knows
    <3>2. CASE ~(ctx'[u] = ctx[u] /\ pc'[u] = pc[u])
      <4>1. u = t /\ phase[n] = "new" /\ ctx'[t].env = n /\ pc'[t] = "network"
        BY <1>5, <2>3, <3>2
        DEF Call, RejectCreate, CallCreate, CallStart, CallRemove, Serve, Context, TypeOK
      <4>. QED BY <2>1, <4>1 DEF Fresh, Knows
    <3>. QED BY <3>1, <3>2
  <2>. QED BY <2>1, <2>2, <2>3 DEF Grounded, Whole
<1>6. CASE Restart
  BY <1>6 DEF Restart, Grounded, NoCall, Context
<1>7. CASE UNCHANGED vars
  BY <1>7 DEF vars, Grounded, Knows, Whole
<1>. QED BY <1>1, <1>2, <1>3, <1>4, <1>5, <1>6, <1>7 DEF Next

\* Every recorded environment has its running instance on its own existing
\* network, whichever calls fail, time out, are repeated or cut short by a
\* restart, as long as nobody but the plugin handles the instances.
THEOREM RecordsBacked ==
  ASSUME "operator" \notin Faults
  PROVE  Spec => []RecordBacked
<1>1. Init => Grounded
  BY DEF Init, Grounded, NoCall, Context
<1>2. Inv /\ Grounded => RecordBacked
  BY DEF Grounded, Whole, RecordBacked
<1>. QED BY <1>1, <1>2, NextGrounded, Invariant, PTL DEF Spec

=============================================================================
