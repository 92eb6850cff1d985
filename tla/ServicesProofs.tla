--------------------------- MODULE ServicesProofs ---------------------------
(***************************************************************************)
(* Proofs about Services, for any names, aliases, numbers of services and  *)
(* faults: types, that host names lead to the right service, that the      *)
(* teardown misses nothing, and the safety part of the promise of          *)
(* JobEnvironment.  All rest on one invariant, which says at each step of  *)
(* the handlers which containers are there (Progress).                     *)
(***************************************************************************)
EXTENDS Services, TLAPS

USE ServicesAssumption

LEMMA AliasTypes ==
  /\ JobName \in Suffixes /\ \A n \in Names : Alias[n] \in Suffixes
  /\ \A b \in Boxes : b # None
BY DEF Suffixes

\* The first k services are up, listed, and the only ones there.
Up(k) ==
  /\ Len(containers) = k
  /\ \A i \in 1..k :
       /\ containers[i] = Alias[services[i]]
       /\ box[containers[i]] # None
       /\ box[containers[i]].of = i
       /\ box[containers[i]].alias = containers[i]
       /\ box[containers[i]].attached = inContainer
  /\ \A s \in Suffixes : box[s] # None /\ box[s].of # 0 => \E i \in 1..k : containers[i] = s

NoJob == jobBox = None /\ \A s \in Suffixes : box[s] # None => box[s].of # 0

HasJob ==
  IF inContainer
  THEN /\ jobBox = JobName /\ box[JobName] # None
       /\ box[JobName].of = 0 /\ box[JobName].alias = None
       /\ box[JobName].attached = (services # <<>>)
       /\ \A s \in Suffixes : box[s] # None /\ box[s].of = 0 => s = JobName
  ELSE NoJob

NetworkUp == network <=> inContainer /\ services # <<>>

Progress ==
  /\ instance <=> pc \notin {"new", "launch", "done"}
  /\ recorded <=> pc = "idle"
  /\ pc \in {"new", "launch", "resolve", "services", "network"} =>
       containers = <<>> /\ turn = 1 /\ jobBox = None /\ box = NoBoxes /\ ~network
  /\ pc = "network" => inContainer /\ services # <<>>
  /\ pc \in {"pull", "run"} => turn \in 1..Len(services) /\ Up(turn - 1) /\ NoJob /\ NetworkUp
  /\ pc \in {"pull_job", "create_job"} => Up(Len(services)) /\ NoJob /\ NetworkUp
  /\ pc = "create_job" => inContainer
  /\ pc \in {"record", "idle", "rm_job"} => Up(Len(services)) /\ HasJob /\ NetworkUp
  /\ pc = "rm_job" => turn = 1
  /\ pc \in Ending => Len(containers) = Len(services) /\ (network => inContainer /\ services # <<>>)
  /\ pc = "rm_service" /\ smooth =>
       \A s \in Suffixes : box[s] # None => \E i \in turn..Len(containers) : containers[i] = s
  /\ pc = "rm_network" /\ smooth => box = NoBoxes
  /\ TakenDown

SInv == TypeOK /\ Progress

-----------------------------------------------------------------------------
(* A container that changes its state stays the container it is.           *)

SameBoxes ==
  \A s \in Suffixes :
    /\ box'[s] = None <=> box[s] = None
    /\ box[s] # None => /\ box'[s].of = box[s].of
                        /\ box'[s].alias = box[s].alias
                        /\ box'[s].attached = box[s].attached

LEMMA SameBoxesUp ==
  ASSUME TypeOK, TypeOK', SameBoxes, UNCHANGED <<services, inContainer, containers, jobBox>>
  PROVE  /\ \A k \in 0..Len(services) : Up(k) => Up(k)'
         /\ NoJob => NoJob'
         /\ HasJob => HasJob'
         /\ box = NoBoxes => box' = NoBoxes
<1>1. JobName \in Suffixes /\ \A i \in 1..Len(containers) : containers[i] \in Suffixes
  BY AliasTypes DEF TypeOK
<1>2. ASSUME NEW k \in 0..Len(services), Up(k) PROVE Up(k)'
  <2>1. \A i \in 1..k : containers[i] \in Suffixes
    BY <1>1, <1>2 DEF Up
  <2>. QED BY <1>2, <2>1 DEF Up, SameBoxes
<1>3. NoJob => NoJob'
  BY DEF NoJob, SameBoxes
<1>4. HasJob => HasJob'
  BY <1>1, <1>3 DEF HasJob, SameBoxes
<1>5. box = NoBoxes => box' = NoBoxes
  BY DEF TypeOK, SameBoxes, NoBoxes
<1>. QED BY <1>2, <1>3, <1>4, <1>5

LEMMA SameBoxesProgress ==
  ASSUME SInv, TypeOK', SameBoxes, UNCHANGED <<requestVars, instance, network, pluginVars, smooth>>
  PROVE  Progress'
<1> USE DEF SInv, requestVars, pluginVars
<1>1. Len(services) \in Nat /\ turn \in Nat
  BY DEF TypeOK
<1>2. pc \in {"pull", "run"} => turn - 1 \in 0..Len(services)
  BY <1>1 DEF Progress
<1>3. /\ pc \in {"pull", "run"} => Up(turn - 1)'
      /\ pc \in {"pull_job", "create_job", "record", "idle", "rm_job"} => Up(Len(services))'
  BY <1>1, <1>2, SameBoxesUp DEF Progress
<1>4. /\ NoJob => NoJob'
      /\ HasJob => HasJob'
      /\ box = NoBoxes => box' = NoBoxes
  BY SameBoxesUp
<1>5. pc = "rm_service" /\ smooth =>
        \A s \in Suffixes : box'[s] # None => \E i \in turn..Len(containers) : containers[i] = s
  BY DEF Progress, SameBoxes
<1>6. NetworkUp => NetworkUp'
  BY DEF NetworkUp
<1>. QED BY <1>3, <1>4, <1>5, <1>6 DEF Progress, TakenDown

-----------------------------------------------------------------------------
(* Types.                                                                  *)

LEMMA InitInv == Init => SInv
<1> SUFFICES ASSUME Init PROVE SInv
  OBVIOUS
<1>1. services \in Seq(Names) /\ Len(services) <= MaxServices
  <2>1. PICK k \in 0..MaxServices : services \in [1..k -> Names]
    BY DEF Init
  <2>. QED BY <2>1
<1>2. TypeOK
  <2>1. box \in [Suffixes -> Boxes \cup {None}]
    BY DEF Init, NoBoxes
  <2>2. containers \in Seq(Suffixes)
    BY DEF Init
  <2>3. runtime \in BOOLEAN
    BY DEF Init
  <2>4. 1 \in 1..MaxServices + 1
    OBVIOUS
  <2>. QED BY <1>1, <2>1, <2>2, <2>3, <2>4 DEF Init, TypeOK
<1>3. Progress
  BY DEF Init, Progress, Ending, TakenDown
<1>. QED BY <1>2, <1>3 DEF SInv

LEMMA CurrentType ==
  ASSUME SInv, pc \in {"pull", "run"}
  PROVE  /\ turn \in 1..Len(services) /\ turn \in 0..MaxServices /\ services[turn] \in Names
         /\ Current \in Suffixes
         /\ \A state \in {"created", "running"} : Box(turn, Current, inContainer, state) \in Boxes
<1>1. turn \in 1..Len(services) /\ services \in Seq(Names) /\ Len(services) <= MaxServices
  BY DEF SInv, Progress, TypeOK
<1>2. services[turn] \in Names /\ turn \in 0..MaxServices
  BY <1>1
<1>3. Current \in Suffixes
  BY <1>2, AliasTypes DEF Current
<1>. QED BY <1>1, <1>2, <1>3 DEF Box, Boxes, SInv, TypeOK

LEMMA JobBoxType == TypeOK => NewJobBox \in Boxes
BY DEF NewJobBox, Box, Boxes, TypeOK

LEMMA StepTypes ==
  ASSUME SInv, Next
  PROVE  TypeOK'
<1> USE AliasTypes DEF SInv, requestVars, hostVars, pluginVars, Goto, Building, Ending
<1>0. /\ TypeOK
      /\ box \in [Suffixes -> Boxes \cup {None}]
  BY DEF TypeOK
<1>1. NoBoxes \in [Suffixes -> Boxes \cup {None}]
  BY DEF NoBoxes
<1>2. CASE CallCreate \/ Resolve \/ Launch
  BY <1>0, <1>2 DEF TypeOK, CallCreate, Launch, Resolve
<1>11. CASE StartServices
  <2>1. pc' \in Building
    BY <1>11 DEF StartServices
  <2>. QED BY <1>0, <1>11, <2>1 DEF TypeOK, StartServices
<1>13. CASE CreateNetwork \/ Pull
  BY <1>0, <1>13 DEF TypeOK, CreateNetwork, Pull
<1>14. CASE CallStart
  BY <1>0, <1>14 DEF TypeOK, CallStart
<1>15. CASE CallRemove
  <2>1. 1 \in 1..MaxServices + 1
    OBVIOUS
  <2>. QED BY <1>0, <1>15, <2>1 DEF TypeOK, CallRemove
<1>12. CASE PullJob \/ Record
  BY <1>0, <1>12 DEF TypeOK, PullJob, Record
<1>3. CASE Discard \/ RemoveInstance
  BY <1>0, <1>1, <1>3 DEF TypeOK, Discard, RemoveInstance, DropInstance, Boxes
<1>4. CASE Run
  <2>1. box' \in [Suffixes -> Boxes \cup {None}]
    BY <1>0, <1>4, CurrentType DEF Run, Fails
  <2>2. containers' \in Seq(Suffixes) /\ turn' \in 1..MaxServices + 1
    <3>1. Current \in Suffixes /\ turn \in 1..MaxServices /\ containers \in Seq(Suffixes)
      BY <1>0, <1>4, CurrentType DEF Run, TypeOK
    <3>2. UNCHANGED <<containers, turn>> \/ (containers' = Append(containers, Current) /\ turn' = turn + 1)
      BY <1>4 DEF Run
    <3>. QED BY <3>1, <3>2
  <2>. QED BY <1>0, <1>4, <2>1, <2>2 DEF TypeOK, Run
<1>5. CASE CreateJob
  <2>1. box' \in [Suffixes -> Boxes \cup {None}]
    BY <1>0, <1>5, JobBoxType DEF CreateJob, Fails
  <2>. QED BY <1>0, <1>5, <2>1 DEF TypeOK, CreateJob
<1>6. CASE StartJob
  <2>1. box' \in [Suffixes -> Boxes \cup {None}]
    BY <1>0, <1>6 DEF StartJob, InState, Box, Boxes
  <2>. QED BY <1>0, <1>6, <2>1 DEF TypeOK, StartJob
<1>7. ASSUME NEW s \in Suffixes, ServiceExits(s) PROVE TypeOK'
  <2>1. box' \in [Suffixes -> Boxes \cup {None}]
    BY <1>0, <1>7 DEF ServiceExits, InState, Box, Boxes
  <2>. QED BY <1>0, <1>7, <2>1 DEF TypeOK, ServiceExits
<1>8. CASE RemoveJob
  <2>1. box' \in [Suffixes -> Boxes \cup {None}] /\ smooth' \in BOOLEAN
    BY <1>0, <1>8 DEF RemoveJob, Rm, RmLost, TypeOK
  <2>. QED BY <1>0, <1>8, <2>1 DEF TypeOK, RemoveJob
<1>9. CASE RemoveService
  <2>1. box' \in [Suffixes -> Boxes \cup {None}] /\ smooth' \in BOOLEAN
    BY <1>0, <1>9 DEF RemoveService, Rm, RmLost, TypeOK
  <2>2. Len(containers) \in Nat /\ Len(containers) <= MaxServices
    BY <1>0, <1>9 DEF RemoveService, Progress, TypeOK
  <2>3. turn' \in 1..MaxServices + 1
    BY <1>0, <1>9, <2>2 DEF RemoveService, TypeOK
  <2>. QED BY <1>0, <1>9, <2>1, <2>3 DEF TypeOK, RemoveService
<1>10. CASE RemoveNetwork
  BY <1>0, <1>10 DEF TypeOK, RemoveNetwork
<1>. QED
  BY <1>2, <1>3, <1>4, <1>5, <1>6, <1>7, <1>8, <1>9, <1>10, <1>11, <1>12, <1>13, <1>14, <1>15
  DEF Next, HandlerStep, CreateStep, RemoveStep

-----------------------------------------------------------------------------
(* Every step preserves Progress.                                          *)

\* StartServices enters the loop with nothing made yet.
LEMMA BeforeServices ==
  ASSUME SInv, TypeOK', CallCreate \/ Launch \/ Resolve \/ StartServices \/ CreateNetwork
  PROVE  Progress'
<1> USE DEF SInv, requestVars, hostVars, pluginVars, Goto
<1>1. /\ containers = <<>> /\ turn = 1 /\ jobBox = None /\ box = NoBoxes /\ ~network
      /\ ~recorded
  BY DEF Progress, CallCreate, Launch, Resolve, StartServices, CreateNetwork
<1>2. UNCHANGED <<containers, turn, jobBox, box, recorded, services, inContainer, smooth>>
  BY DEF CallCreate, Launch, Resolve, StartServices, CreateNetwork
<1>4. /\ services # <<>> => 1 \in 1..Len(services)
      /\ services = <<>> => Len(services) = 0
  BY DEF TypeOK
<1>3. NoJob' /\ Up(turn - 1)' /\ (services = <<>> => Up(Len(services))')
  <2>1. NoJob'
    BY <1>1, <1>2 DEF NoJob, NoBoxes
  <2>2. Up(turn - 1)'
    BY <1>1, <1>2 DEF Up, NoBoxes
  <2>3. services = <<>> => Up(Len(services))'
    BY <1>1, <1>2, <1>4 DEF Up, NoBoxes
  <2>. QED BY <2>1, <2>2, <2>3
<1>5. CASE CallCreate \/ Launch \/ Resolve
  BY <1>1, <1>2, <1>5 DEF Progress, CallCreate, Launch, Resolve, TakenDown, Ending
<1>6. CASE StartServices
  <2>1. instance /\ UNCHANGED instance /\ pc' \in {"pull_job", "discard", "network", "pull"}
    BY <1>6 DEF Progress, StartServices
  <2>2. CASE pc' \in {"discard", "network"}
    BY <1>1, <1>2, <1>6, <2>1, <2>2 DEF Progress, StartServices, TakenDown, Ending
  <2>3. CASE pc' \in {"pull_job", "pull"}
    <3>1. NetworkUp' /\ (pc' = "pull_job" => services = <<>>) /\ (pc' = "pull" => services # <<>>)
      BY <1>1, <1>2, <1>6, <2>3 DEF StartServices, NetworkUp
    <3>2. services' = services /\ turn' = 1 /\ ~recorded'
      BY <1>1, <1>2
    <3>. QED BY <1>3, <1>4, <2>1, <2>3, <3>1, <3>2 DEF Progress, TakenDown, Ending
  <2>. QED BY <2>1, <2>2, <2>3
<1>7. CASE CreateNetwork
  <2>1. instance /\ UNCHANGED instance /\ pc' \in {"discard", "pull"}
    BY <1>7 DEF Progress, CreateNetwork
  <2>2. CASE pc' = "discard"
    BY <1>1, <1>2, <2>1, <2>2 DEF Progress, TakenDown, Ending
  <2>3. CASE pc' = "pull"
    <3>1. NetworkUp' /\ services # <<>> /\ services' = services /\ turn' = 1 /\ ~recorded'
      BY <1>1, <1>2, <1>7, <2>3 DEF CreateNetwork, NetworkUp, Progress
    <3>. QED BY <1>3, <1>4, <2>1, <2>3, <3>1 DEF Progress, TakenDown, Ending
  <2>. QED BY <2>1, <2>2, <2>3
<1>. QED BY <1>5, <1>6, <1>7

\* A service that comes up extends what is up by one; its name was free.
LEMMA RunExtends ==
  ASSUME SInv, TypeOK', pc = "run", box[Current] = None,
         box' = [box EXCEPT ![Current] = Box(turn, Current, inContainer, "running")],
         containers' = Append(containers, Current),
         UNCHANGED <<services, inContainer, jobBox>>, NEW k, k = turn
  PROVE  Up(k)' /\ NoJob'
<1> USE DEF SInv
<1>1. /\ turn \in 1..Len(services) /\ Up(turn - 1) /\ NoJob
      /\ Current \in Suffixes /\ Box(turn, Current, inContainer, "running") \in Boxes
  BY CurrentType DEF Progress
<1>2. /\ box'[Current] # None
      /\ \A s \in Suffixes : s # Current => box'[s] = box[s]
  BY <1>1, AliasTypes DEF TypeOK
<1>10. /\ box'[Current].of = turn /\ box'[Current].alias = Current
       /\ box'[Current].attached = inContainer
  <2>1. box'[Current] = Box(turn, Current, inContainer, "running")
    BY <1>1 DEF TypeOK
  <2>. QED BY <2>1 DEF Box
<1>3. containers \in Seq(Suffixes) /\ Len(containers) = turn - 1 /\ turn \in Nat
  BY <1>1 DEF Up, TypeOK
<1>4. Len(containers') = turn
  BY <1>1, <1>3
<1>5. containers'[turn] = Current /\ \A i \in 1..turn - 1 : containers'[i] = containers[i]
  BY <1>1, <1>3
<1>6. ASSUME NEW i \in 1..turn
      PROVE  /\ containers'[i] = Alias[services[i]]
             /\ box'[containers'[i]] # None
             /\ box'[containers'[i]].of = i
             /\ box'[containers'[i]].alias = containers'[i]
             /\ box'[containers'[i]].attached = inContainer
  <2>1. CASE i = turn
    <3>1. containers'[i] = Current /\ Current = Alias[services[i]]
      BY <1>5, <2>1 DEF Current
    <3>. QED BY <1>2, <1>10, <2>1, <3>1
  <2>2. CASE i \in 1..turn - 1
    <3>1. containers'[i] = containers[i] /\ containers[i] \in Suffixes /\ box[containers[i]] # None
      BY <1>1, <1>3, <1>5, <2>2 DEF Up
    <3>2. box'[containers[i]] = box[containers[i]]
      BY <1>2, <3>1
    <3>. QED BY <1>1, <2>2, <3>1, <3>2 DEF Up
  <2>. QED BY <1>3, <2>1, <2>2
<1>7. ASSUME NEW s \in Suffixes, box'[s] # None, box'[s].of # 0
      PROVE  \E i \in 1..turn : containers'[i] = s
  <2>1. CASE s = Current
    BY <1>3, <1>5, <2>1
  <2>2. CASE s # Current
    <3>1. PICK i \in 1..turn - 1 : containers[i] = s
      BY <1>1, <1>2, <1>7, <2>2 DEF Up
    <3>. QED BY <1>3, <1>5, <3>1
  <2>. QED BY <2>1, <2>2
<1>8. Up(k)'
  BY <1>4, <1>6, <1>7, <1>3 DEF Up
<1>9. NoJob'
  <2>1. box'[Current].of # 0
    BY <1>1, <1>10 DEF TypeOK
  <2>. QED BY <1>1, <1>2, <2>1 DEF NoJob
<1>. QED BY <1>8, <1>9

LEMMA ServicesLoop ==
  ASSUME SInv, TypeOK', Pull \/ Run
  PROVE  Progress'
<1> USE DEF SInv, requestVars, hostVars, pluginVars, Goto
<1>1. /\ turn \in 1..Len(services) /\ Up(turn - 1) /\ NoJob /\ NetworkUp
      /\ instance /\ recorded = FALSE /\ pc \in {"pull", "run"}
  BY DEF Progress, Pull, Run, TypeOK
<1>2. UNCHANGED <<services, inContainer, network, instance, recorded, jobBox>>
  BY DEF Pull, Run
<1>3. NetworkUp'
  BY <1>1, <1>2 DEF NetworkUp
<1>4. CASE pc' = "discard"
  BY <1>1, <1>2, <1>4 DEF Progress, TakenDown, Ending
<1>5. CASE Pull /\ pc' # "discard"
  <2>1. pc' = "run" /\ UNCHANGED <<box, containers, turn>>
    BY <1>5 DEF Pull
  <2>2. Up(turn - 1)' /\ NoJob'
    BY <1>1, <1>2, <2>1 DEF Up, NoJob
  <2>. QED BY <1>1, <1>2, <1>3, <2>1, <2>2 DEF Progress, TakenDown, Ending
<1>6. CASE Run /\ pc' # "discard"
  <2>1. /\ pc = "run" /\ box[Current] = None
        /\ box' = [box EXCEPT ![Current] = Box(turn, Current, inContainer, "running")]
        /\ containers' = Append(containers, Current)
        /\ turn' = turn + 1
        /\ pc' = IF turn < Len(services) THEN "pull" ELSE "pull_job"
    BY <1>6 DEF Run
  <2>2. \A k : k = turn => Up(k)' /\ NoJob'
    BY <1>2, <2>1, RunExtends
  <2>3. turn' - 1 = turn /\ turn' \in Nat /\ Len(services) \in Nat
    BY <1>1, <2>1 DEF TypeOK
  <2>4. CASE turn < Len(services)
    <3>1. turn' \in 1..Len(services)'
      BY <1>1, <1>2, <2>1, <2>4 DEF TypeOK
    <3>2. Up(turn - 1)'
      BY <2>2, <2>3
    <3>. QED BY <1>1, <1>2, <1>3, <2>1, <2>2, <2>4, <3>1, <3>2 DEF Progress, TakenDown, Ending
  <2>5. CASE ~(turn < Len(services))
    <3>1. Up(Len(services))'
      <4>1. Len(services)' = turn
        BY <1>1, <1>2, <2>5
      <4>. QED BY <2>2, <4>1
    <3>. QED BY <1>1, <1>2, <1>3, <2>1, <2>2, <2>5, <3>1 DEF Progress, TakenDown, Ending
  <2>. QED BY <2>4, <2>5
<1>. QED BY <1>4, <1>5, <1>6

LEMMA AfterServices ==
  ASSUME SInv, TypeOK', PullJob \/ CreateJob \/ Record
  PROVE  Progress'
<1> USE DEF SInv, requestVars, hostVars, pluginVars, Goto
<1>1. /\ Up(Len(services)) /\ NetworkUp /\ instance /\ ~recorded
      /\ pc \in {"pull_job", "create_job"} => NoJob
      /\ pc = "create_job" => inContainer
      /\ pc = "record" => HasJob
  BY DEF Progress, PullJob, CreateJob, Record, TypeOK
<1>2. UNCHANGED <<services, inContainer, network, instance, containers, turn>>
  BY DEF PullJob, CreateJob, Record
<1>3. NetworkUp'
  BY <1>1, <1>2 DEF NetworkUp
<1>4. CASE pc' = "discard"
  <2>1. ~recorded'
    BY <1>1, <1>4 DEF PullJob, CreateJob, Record
  <2>. QED BY <1>1, <1>2, <1>4, <2>1 DEF Progress, TakenDown, Ending
<1>5. CASE (PullJob \/ Record) /\ pc' # "discard"
  <2>1. UNCHANGED <<box, jobBox>>
    BY <1>5 DEF PullJob, Record
  <2>2. Up(Len(services))' /\ (NoJob => NoJob') /\ (HasJob => HasJob')
    BY <1>1, <1>2, <2>1 DEF Up, NoJob, HasJob
  <2>3. CASE PullJob
    <3>1. /\ ~recorded' /\ pc = "pull_job"
          /\ pc' = IF inContainer THEN "create_job" ELSE "record"
      BY <1>1, <1>5, <2>3 DEF PullJob
    <3>2. NoJob /\ (~inContainer => HasJob)
      BY <1>1, <3>1 DEF HasJob
    <3>. QED BY <1>1, <1>2, <1>3, <2>2, <3>1, <3>2 DEF Progress, TakenDown, Ending
  <2>4. CASE Record
    <3>1. recorded' = TRUE /\ pc = "record" /\ pc' = "idle"
      BY <1>5, <2>4 DEF Record
    <3>. QED BY <1>1, <1>2, <1>3, <2>2, <3>1 DEF Progress, TakenDown, Ending
  <2>. QED BY <1>5, <2>3, <2>4
<1>6. CASE CreateJob /\ pc' # "discard"
  <2>1. /\ pc = "create_job" /\ box[JobName] = None /\ pc' = "record" /\ ~recorded'
        /\ box' = [box EXCEPT ![JobName] = NewJobBox] /\ jobBox' = JobName
    BY <1>1, <1>6 DEF CreateJob
  <2>2. /\ box'[JobName] = NewJobBox /\ box'[JobName] # None /\ JobName \in Suffixes
        /\ \A s \in Suffixes : s # JobName => box'[s] = box[s]
    BY <2>1, AliasTypes, JobBoxType DEF TypeOK
  <2>3. HasJob'
    <3>1. /\ box'[JobName].of = 0 /\ box'[JobName].alias = None
          /\ box'[JobName].attached = (services # <<>>)
      BY <2>2 DEF NewJobBox, Box
    <3>2. \A s \in Suffixes : box'[s] # None /\ box'[s].of = 0 => s = JobName
      BY <1>1, <2>1, <2>2 DEF NoJob
    <3>. QED BY <1>1, <1>2, <2>1, <2>2, <3>1, <3>2 DEF HasJob
  <2>4. Up(Len(services))'
    <3>1. \A i \in 1..Len(services) : containers[i] \in Suffixes /\ containers[i] # JobName
      <4>1. \A i \in 1..Len(services) : containers[i] \in Suffixes
        BY <1>1 DEF Up, TypeOK
      <4>. QED BY <1>1, <2>1, <4>1 DEF Up
    <3>2. box'[JobName].of = 0
      BY <2>2 DEF NewJobBox, Box
    <3>. QED BY <1>1, <1>2, <2>2, <3>1, <3>2 DEF Up
  <2>. QED BY <1>1, <1>2, <1>3, <2>1, <2>3, <2>4 DEF Progress, TakenDown, Ending
<1>. QED BY <1>4, <1>5, <1>6

LEMMA InstanceDrops ==
  ASSUME SInv, TypeOK', Discard \/ RemoveInstance
  PROVE  Progress'
<1> USE DEF SInv, Goto
<1>1. pc' = "done" /\ ~instance' /\ ~recorded /\ recorded' = recorded
  BY DEF Discard, RemoveInstance, DropInstance, Progress
<1>. QED BY <1>1 DEF Progress, TakenDown, Ending

\* The job container goes: what is left is the services'.
LEMMA JobRemoved ==
  ASSUME SInv, TypeOK', CallRemove \/ RemoveJob
  PROVE  Progress'
<1> USE DEF SInv, requestVars, hostVars, pluginVars, Goto
<1>1. /\ Up(Len(services)) /\ NetworkUp /\ HasJob /\ instance
      /\ UNCHANGED <<services, inContainer, network, instance, containers, jobBox>>
      /\ ~recorded'
  BY DEF Progress, CallRemove, RemoveJob
<1>2. NetworkUp'
  BY <1>1 DEF NetworkUp
<1>3. CASE CallRemove
  <2>1. UNCHANGED box /\ pc' = "rm_job" /\ turn' = 1
    BY <1>3 DEF CallRemove
  <2>2. Up(Len(services))' /\ HasJob'
    BY <1>1, <2>1 DEF Up, HasJob, NoJob
  <2>3. Len(containers)' = Len(services)' /\ (network' => inContainer' /\ services' # <<>>)
    BY <1>1 DEF Up, NetworkUp
  <2>. QED BY <1>1, <1>2, <2>1, <2>2, <2>3 DEF Progress, TakenDown, Ending
<1>4. CASE RemoveJob
  <2>1. /\ pc' = IF services = <<>> THEN "rm_instance" ELSE "rm_service"
        /\ turn' = 1
    BY <1>4 DEF RemoveJob, Progress
  <2>2. ASSUME smooth', NEW s \in Suffixes, box'[s] # None
        PROVE  \E i \in 1..Len(containers) : containers[i] = s
    <3>1. box[s] # None /\ (jobBox # None => s # JobName)
      BY <1>1, <1>4, <2>2, AliasTypes DEF RemoveJob, Rm, RmLost, HasJob, NoJob, TypeOK
    <3>2. box[s].of # 0
      BY <1>1, <3>1, AliasTypes DEF HasJob, NoJob
    <3>. QED BY <1>1, <3>1, <3>2 DEF Up
  <2>3. Len(containers) = Len(services) /\ (network => inContainer /\ services # <<>>)
    BY <1>1 DEF Up, NetworkUp
  <2>4. CASE services = <<>>
    <3>1. smooth' => box' = NoBoxes
      BY <2>2, <2>3, <2>4 DEF NoBoxes, TypeOK
    <3>. QED BY <1>1, <2>1, <2>3, <2>4, <3>1 DEF Progress, TakenDown, Ending
  <2>5. CASE services # <<>>
    BY <1>1, <2>1, <2>2, <2>3, <2>5 DEF Progress, TakenDown, Ending
  <2>. QED BY <2>4, <2>5
<1>. QED BY <1>3, <1>4

\* Each turn of the cleanup takes one service; after the last there is none.
LEMMA ServicesRemoved ==
  ASSUME SInv, TypeOK', RemoveService
  PROVE  Progress'
<1> USE DEF SInv, requestVars, hostVars, pluginVars, Goto
<1>1. /\ instance /\ ~recorded /\ pc = "rm_service"
      /\ Len(containers) = Len(services) /\ (network => inContainer /\ services # <<>>)
      /\ UNCHANGED <<services, inContainer, network, instance, containers, jobBox, recorded>>
      /\ turn \in Nat /\ turn >= 1 /\ Len(containers) \in Nat
  BY DEF Progress, RemoveService, TypeOK, Ending
<1>2. smooth => \A s \in Suffixes : box[s] # None => \E i \in turn..Len(containers) : containers[i] = s
  BY <1>1 DEF Progress
<1>3. CASE turn \in 1..Len(containers) /\ Rm(containers[turn]) /\ turn' = turn + 1 /\ UNCHANGED pc
  <2>1. ASSUME smooth', NEW s \in Suffixes, box'[s] # None
        PROVE  \E i \in turn'..Len(containers)' : containers'[i] = s
    <3>1. smooth /\ box' = [box EXCEPT ![containers[turn]] = None]
      BY <1>3, <2>1 DEF Rm
    <3>2. s # containers[turn] /\ box[s] # None
      BY <2>1, <3>1 DEF TypeOK
    <3>3. PICK i \in turn..Len(containers) : containers[i] = s
      BY <1>2, <3>1, <3>2
    <3>4. i # turn
      BY <3>2, <3>3
    <3>5. i \in turn'..Len(containers)'
      BY <1>1, <1>3, <3>3, <3>4
    <3>. QED BY <1>1, <3>3, <3>5
  <2>. QED BY <1>1, <1>3, <2>1 DEF Progress, TakenDown, Ending
<1>4. CASE RmLost(containers[turn]) /\ pc' = "rm_instance"
  <2>1. ~smooth'
    BY <1>4 DEF RmLost
  <2>. QED BY <1>1, <1>4, <2>1 DEF Progress, TakenDown, Ending
<1>5. CASE /\ turn \notin 1..Len(containers)
           /\ pc' = IF inContainer THEN "rm_network" ELSE "rm_instance"
           /\ UNCHANGED <<box, smooth>>
  <2>1. \A i : i \notin turn..Len(containers)
    BY <1>1, <1>5
  <2>2. smooth' => box' = NoBoxes
    BY <1>2, <1>5, <2>1 DEF NoBoxes, TypeOK
  <2>. QED BY <1>1, <1>5, <2>2 DEF Progress, TakenDown, Ending
<1>. QED BY <1>3, <1>4, <1>5 DEF RemoveService

LEMMA NetworkRemoved ==
  ASSUME SInv, TypeOK', RemoveNetwork
  PROVE  Progress'
<1> USE DEF SInv, requestVars, hostVars, pluginVars, Goto
<1>1. /\ instance /\ ~recorded /\ pc = "rm_network" /\ pc' = "rm_instance"
      /\ Len(containers) = Len(services) /\ (network => inContainer /\ services # <<>>)
      /\ UNCHANGED <<services, inContainer, box, instance, containers, jobBox, recorded>>
      /\ smooth => box = NoBoxes
  BY DEF Progress, RemoveNetwork, TypeOK, Ending
<1>2. network' => network
  BY DEF RemoveNetwork
<1>3. smooth' => ~network' /\ box' = NoBoxes
  BY <1>1 DEF RemoveNetwork, NoBoxes
<1>. QED BY <1>1, <1>2, <1>3 DEF Progress, TakenDown, Ending

LEMMA BoxesChangeState ==
  ASSUME SInv, TypeOK', StartJob \/ CallStart \/ \E s \in Suffixes : ServiceExits(s)
  PROVE  Progress'
<1> USE AliasTypes DEF SInv, hostVars
<1>1. box \in [Suffixes -> Boxes \cup {None}]
  BY DEF TypeOK
<1>2. ASSUME NEW s \in Suffixes, box[s] # None, NEW state \in {"running", "exited"},
             box' = [box EXCEPT ![s] = InState(box[s], state)]
      PROVE  SameBoxes
  <2>1. box[s] \in Boxes
    BY <1>1, <1>2
  <2>2. InState(box[s], state) \in Boxes
    BY <2>1 DEF InState, Box, Boxes
  <2>3. /\ InState(box[s], state).of = box[s].of
        /\ InState(box[s], state).alias = box[s].alias
        /\ InState(box[s], state).attached = box[s].attached
    BY DEF InState, Box
  <2>. QED BY <1>1, <1>2, <2>1, <2>2, <2>3 DEF SameBoxes
<1>3. UNCHANGED box => SameBoxes
  BY DEF SameBoxes
<1>4. CASE CallStart
  <2>1. UNCHANGED <<box, requestVars, instance, network, pluginVars, smooth>>
    BY <1>4 DEF CallStart
  <2>. QED BY <1>3, <2>1, SameBoxesProgress
<1>5. CASE StartJob
  <2>1. UNCHANGED <<requestVars, instance, network, pluginVars, smooth>>
    BY <1>5 DEF StartJob
  <2>2. SameBoxes
    BY <1>2, <1>3, <1>5 DEF StartJob
  <2>. QED BY <2>1, <2>2, SameBoxesProgress
<1>6. ASSUME NEW s \in Suffixes, ServiceExits(s) PROVE Progress'
  <2>1. UNCHANGED <<requestVars, instance, network, pluginVars, smooth>>
    BY <1>6 DEF ServiceExits
  <2>2. SameBoxes
    BY <1>2, <1>6 DEF ServiceExits
  <2>. QED BY <2>1, <2>2, SameBoxesProgress
<1>. QED BY <1>4, <1>5, <1>6

LEMMA NextInv == SInv /\ [Next]_vars => SInv'
<1> SUFFICES ASSUME SInv, [Next]_vars PROVE SInv'
  OBVIOUS
<1>1. CASE Next
  <2>1. TypeOK'
    BY <1>1, StepTypes
  <2>2. Progress'
    BY <1>1, <2>1, BeforeServices, ServicesLoop, AfterServices, InstanceDrops, JobRemoved,
       ServicesRemoved, NetworkRemoved, BoxesChangeState
    DEF Next, HandlerStep, CreateStep, RemoveStep
  <2>. QED BY <2>1, <2>2 DEF SInv
<1>2. CASE UNCHANGED vars
  <2>1. TypeOK'
    BY <1>2 DEF SInv, TypeOK, vars, requestVars, hostVars, pluginVars
  <2>2. SameBoxes /\ UNCHANGED <<requestVars, instance, network, pluginVars, smooth>>
    BY <1>2 DEF SameBoxes, vars, hostVars
  <2>. QED BY <2>1, <2>2, SameBoxesProgress DEF SInv
<1>. QED BY <1>1, <1>2

LEMMA ServicesInv == Spec => []SInv
BY InitInv, NextInv, PTL DEF Spec

-----------------------------------------------------------------------------
(* The theorems.                                                           *)

\* Type correctness of the nested containers, for any number of services.
THEOREM ServicesTypes == Spec => []TypeOK
BY ServicesInv, PTL DEF SInv

LEMMA RecordReachable == SInv => ServicesReachable
<1> SUFFICES ASSUME SInv, recorded PROVE ServicesReachable
  BY DEF ServicesReachable
<1>1. Up(Len(services)) /\ HasJob /\ NetworkUp
  BY DEF SInv, Progress
<1>2. \A i \in 1..Len(services) : containers[i] \in Suffixes
  BY <1>1 DEF SInv, TypeOK, Up
<1>3. HasServices(inContainer)
  BY <1>1, <1>2 DEF HasServices, Up
<1>4. ASSUME inContainer
      PROVE  /\ box[JobName] # None /\ box[JobName].of = 0
             /\ services # <<>> => network /\ box[JobName].attached
  BY <1>1, <1>4 DEF HasJob, NetworkUp
<1>5. ASSUME inContainer, NEW i \in 1..Len(services)
      PROVE  Resolves(Alias[services[i]]) = {i}
  <2>1. /\ containers[i] = Alias[services[i]] /\ containers[i] \in Suffixes
        /\ box[containers[i]] # None /\ box[containers[i]].of = i
        /\ box[containers[i]].alias = containers[i] /\ box[containers[i]].attached
    BY <1>1, <1>2, <1>5 DEF Up
  <2>2. i \in Resolves(Alias[services[i]])
    BY <2>1 DEF Resolves
  <2>3. ASSUME NEW s \in Suffixes, box[s] # None, box[s].alias = containers[i] PROVE s = containers[i]
    <3>1. box[s].of # 0
      BY <1>1, <1>5, <2>1, <2>3 DEF HasJob
    <3>2. PICK j \in 1..Len(services) : containers[j] = s
      BY <1>1, <2>3, <3>1 DEF Up
    <3>. QED BY <1>1, <2>3, <3>2 DEF Up
  <2>. QED BY <2>1, <2>2, <2>3 DEF Resolves
<1>. QED BY <1>3, <1>4, <1>5 DEF ServicesReachable

\* For any number of services, any names and any way in which names collapse
\* to one alias: in an environment on record each host name leads to exactly
\* the service it was asked for.
THEOREM HostNamesResolve == Spec => []ServicesReachable
BY ServicesInv, RecordReachable, PTL

\* A teardown none of whose commands failed leaves nothing in the instance,
\* for any number of services, whatever Start does meanwhile.
THEOREM TeardownComplete == Spec => []TakenDown
BY ServicesInv, PTL DEF SInv, Progress

-----------------------------------------------------------------------------
(* The promise.  A step of Services is a step of JobEnvironment according  *)
(* to where the handlers come from and get to.                             *)

LEMMA StageFacts ==
  SInv =>
    /\ pc = "new" => Stage = "none" /\ Assets = "nothing"
    /\ pc = "launch" => Assets = "nothing"
    /\ pc \in Building => Stage = "building"
    /\ pc = "record" => Assets = "everything"
    /\ pc = "idle" => Stage = "usable" /\ Assets = "everything"
    /\ pc \in Ending => Stage = "ending"
    /\ pc = "done" => Stage = "over" /\ Assets = "nothing"
    /\ Assets \in {"nothing", "some", "everything"}
<1>1. SInv => (recorded <=> pc = "idle")
  BY DEF SInv, Progress
<1>2. SInv /\ pc \in {"record", "idle"} => Whole
  <2> SUFFICES ASSUME SInv, pc \in {"record", "idle"} PROVE Whole
    OBVIOUS
  <2>1. Up(Len(services)) /\ HasJob /\ NetworkUp /\ instance
    BY DEF SInv, Progress
  <2>2. \A i \in 1..Len(services) : containers[i] \in Suffixes
    BY <2>1 DEF SInv, TypeOK, Up
  <2>3. HasServices(inContainer)
    BY <2>1, <2>2 DEF HasServices, Up
  <2>. QED BY <2>1, <2>3 DEF Whole, HasJob, NetworkUp
<1>. QED BY <1>1, <1>2 DEF SInv, Progress, Stage, Assets, Whole, Building, Ending

\* Where a step takes the handlers.
LEMMA Moves ==
  ASSUME SInv, [Next]_vars
  PROVE  \/ pc' = pc
         \/ pc = "new" /\ pc' = "launch"
         \/ pc \in Building /\ pc' \in Building \cup {"done"}
         \/ pc = "record" /\ pc' = "idle"
         \/ pc = "idle" /\ pc' = "rm_job" /\ UNCHANGED <<services, inContainer, instance, network, box>>
         \/ pc \in Ending /\ pc' \in Ending \cup {"done"}
<1> USE DEF SInv, Progress, requestVars, hostVars, pluginVars, Goto, Building, Ending
<1>1. CASE CallCreate \/ CallStart \/ CallRemove \/ StartJob \/ UNCHANGED vars
  BY <1>1 DEF CallCreate, CallStart, CallRemove, StartJob, vars
<1>2. CASE Launch \/ Resolve \/ StartServices \/ CreateNetwork \/ Pull \/ Run
  BY <1>2 DEF Launch, Resolve, StartServices, CreateNetwork, Pull, Run
<1>3. CASE PullJob \/ CreateJob \/ Record \/ Discard
  BY <1>3 DEF PullJob, CreateJob, Record, Discard
<1>4. CASE RemoveStep
  BY <1>4 DEF RemoveStep, RemoveJob, RemoveService, RemoveNetwork, RemoveInstance
<1>5. CASE \E s \in Suffixes : ServiceExits(s)
  BY <1>5 DEF ServiceExits
<1>. QED BY <1>1, <1>2, <1>3, <1>4, <1>5 DEF Next, HandlerStep, CreateStep

LEMMA StepKeepsPromise ==
  SInv /\ SInv' /\ [Next]_vars => [Promise!Next]_(Promise!vars)
<1> SUFFICES ASSUME SInv, SInv', [Next]_vars PROVE [Promise!Next]_(Promise!vars)
  OBVIOUS
<1> DEFINE E == {"environment"}
           stage == [n \in E |-> Stage]
           assets == [n \in E |-> Assets]
<1>0. /\ pc' = "new" => Stage' = "none" /\ Assets' = "nothing"
      /\ pc' = "launch" => Assets' = "nothing"
      /\ pc' \in Building => Stage' = "building"
      /\ pc' = "record" => Assets' = "everything"
      /\ pc' = "idle" => Stage' = "usable" /\ Assets' = "everything"
      /\ pc' \in Ending => Stage' = "ending"
      /\ pc' = "done" => Stage' = "over" /\ Assets' = "nothing"
      /\ Assets' \in {"nothing", "some", "everything"}
  <2>1. (SInv =>
           /\ pc = "new" => Stage = "none" /\ Assets = "nothing"
           /\ pc = "launch" => Assets = "nothing"
           /\ pc \in Building => Stage = "building"
           /\ pc = "record" => Assets = "everything"
           /\ pc = "idle" => Stage = "usable" /\ Assets = "everything"
           /\ pc \in Ending => Stage = "ending"
           /\ pc = "done" => Stage = "over" /\ Assets = "nothing"
           /\ Assets \in {"nothing", "some", "everything"})'
    BY StageFacts, PTL
  <2>. QED BY <2>1 DEF Building, Ending
<1>1. pc \in {"new", "idle", "done"} \cup Building \cup Ending
  BY DEF SInv, TypeOK
<1>2. CASE pc' = pc /\ pc \in {"new", "idle", "done"}
  <2>1. Stage' = Stage /\ Assets' = Assets
    BY <1>0, <1>2, StageFacts
  <2>. QED BY <2>1 DEF Promise!vars
<1>3. CASE \/ pc \in Building /\ pc' \in Building
           \/ pc \in Ending /\ pc' \in Ending
  <2>1. Stage' = Stage /\ Stage \in {"building", "ending"}
    BY <1>0, <1>3, StageFacts
  <2>2. assets' = [assets EXCEPT !["environment"] = Assets'] /\ stage' = stage
    BY <2>1
  <2>. QED BY <1>0, <2>1, <2>2 DEF Promise!Next, Promise!Rework, Promise!Assets
<1>4. CASE pc = "new" /\ pc' = "launch"
  <2>1. Stage = "none" /\ Stage' = "building" /\ Assets' = Assets
    BY <1>0, <1>4, StageFacts DEF Building
  <2>2. stage' = [stage EXCEPT !["environment"] = "building"] /\ assets' = assets
    BY <2>1
  <2>. QED BY <2>1, <2>2 DEF Promise!Next, Promise!Begin, Promise!Move
<1>5. CASE pc = "record" /\ pc' = "idle"
  <2>1. /\ Stage = "building" /\ Stage' = "usable"
        /\ Assets = "everything" /\ Assets' = "everything"
    BY <1>0, <1>5, StageFacts DEF Building
  <2>2. stage' = [stage EXCEPT !["environment"] = "usable"] /\ assets' = assets
    BY <2>1
  <2>. QED BY <2>1, <2>2 DEF Promise!Next, Promise!Offer, Promise!Move
<1>6. CASE /\ pc = "idle" /\ pc' = "rm_job"
           /\ UNCHANGED <<services, inContainer, instance, network, box>>
  <2>1. Stage = "usable" /\ Stage' = "ending"
    BY <1>0, <1>6, StageFacts DEF Ending
  <2>2. Assets' = Assets
    BY <1>6 DEF Assets, Whole, HasServices
  <2>3. stage' = [stage EXCEPT !["environment"] = "ending"] /\ assets' = assets
    BY <2>1, <2>2
  <2>. QED BY <2>1, <2>3 DEF Promise!Next, Promise!End, Promise!Move
<1>7. CASE pc \in Building \cup Ending /\ pc' = "done"
  <2>1. Stage \in {"building", "ending"} /\ Stage' = "over" /\ Assets' = "nothing"
    BY <1>0, <1>7, StageFacts
  <2>2. /\ stage' = [stage EXCEPT !["environment"] = "over"]
        /\ assets' = [assets EXCEPT !["environment"] = "nothing"]
    BY <2>1
  <2>. QED BY <2>1, <2>2 DEF Promise!Next, Promise!Finish, Promise!Move
<1>8. \/ pc' = pc /\ pc \in {"new", "idle", "done"}
      \/ pc \in Building /\ pc' \in Building
      \/ pc \in Ending /\ pc' \in Ending
      \/ pc = "new" /\ pc' = "launch"
      \/ pc = "record" /\ pc' = "idle"
      \/ /\ pc = "idle" /\ pc' = "rm_job"
         /\ UNCHANGED <<services, inContainer, instance, network, box>>
      \/ pc \in Building \cup Ending /\ pc' = "done"
  BY <1>1, Moves
<1>. HIDE DEF stage, assets
<1>. QED BY <1>2, <1>3, <1>4, <1>5, <1>6, <1>7, <1>8

LEMMA InitKeepsPromise == Init => Promise!Init
<1> SUFFICES ASSUME Init PROVE Promise!Init
  OBVIOUS
<1>1. SInv
  BY InitInv
<1>. QED BY <1>1, StageFacts DEF Init, Promise!Init

\* Whatever the workflow names its services and whichever commands fail, the
\* containers inside the instance come and go as JobEnvironment allows: nothing
\* is offered incomplete, nothing goes before Remove, nothing is left at the
\* end.  (That the end is reached is a matter of fairness, and TLC's.)
THEOREM ServicesKeepPromise == Spec => Promise!Spec
<1>1. Spec => []SInv
  BY ServicesInv
<1>. QED BY <1>1, InitKeepsPromise, StepKeepsPromise, PTL DEF Spec, Promise!Spec

\* What the promise comes to at any moment: an environment that a caller may use
\* has its services and job container complete in the instance, and none is left
\* when it is over.
THEOREM ServicesSound == Spec => []Promise!Sound
<1> DEFINE E == {"environment"}
           stages == [n \in E |-> Stage]
           assets == [n \in E |-> Assets]
           Fine(stage, asset) == /\ stage = "usable" => asset = "everything"
                                 /\ stage \in {"none", "over"} => asset = "nothing"
<1>1. Promise!Init => Promise!Sound
  BY DEF Promise!Init, Promise!Sound
<1>2. ASSUME Promise!Sound, [Promise!Next]_(Promise!vars)
      PROVE  Promise!Sound'
  <2>1. stages = [n \in E |-> stages[n]] /\ assets = [n \in E |-> assets[n]]
    OBVIOUS
  <2>2. Promise!Sound <=> \A n \in E : Fine(stages[n], assets[n])
    BY DEF Promise!Sound
  <2>3. Promise!Sound' <=> \A n \in E : Fine(stages'[n], assets'[n])
    BY DEF Promise!Sound
  <2>4. \/ stages' = stages /\ assets' = assets
        \/ \E n \in E :
             \/ stages[n] \in {"building", "ending"} /\ stages' = stages
                /\ \E a \in Promise!Assets : assets' = [assets EXCEPT ![n] = a]
             \/ /\ stages[n] = "none" /\ assets' = assets
                /\ stages' = [stages EXCEPT ![n] = "building"]
             \/ /\ assets[n] = "everything" /\ assets' = assets
                /\ stages' = [stages EXCEPT ![n] = "usable"]
             \/ /\ stages[n] = "usable" /\ assets' = assets
                /\ stages' = [stages EXCEPT ![n] = "ending"]
             \/ /\ stages' = [stages EXCEPT ![n] = "over"]
                /\ assets' = [assets EXCEPT ![n] = "nothing"]
    BY <1>2 DEF Promise!vars, Promise!Next, Promise!Begin, Promise!Rework, Promise!Offer,
           Promise!End, Promise!Finish, Promise!Move
  <2> HIDE DEF stages, assets
  <2>. QED BY <1>2, <2>1, <2>2, <2>3, <2>4
<1>. QED BY <1>1, <1>2, ServicesKeepPromise, PTL DEF Promise!Spec

=============================================================================
