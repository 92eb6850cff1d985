---------------------------- MODULE ServerProofs ----------------------------
(***************************************************************************)
(* Proofs about Server and Health, for any calls, pools, intervals and     *)
(* bounds of time: types, how old what is published may be, that nothing   *)
(* is published during the stop, how long the stop takes, and the counter. *)
(***************************************************************************)
EXTENDS Server, FiniteSetTheorems, TLAPS

USE HealthAssumption, ServerAssumption

\* Every actor's steps, for the proofs by cases.
PollerOnly == PollerStep /\ Outside
DaemonOnly == DaemonChanges /\ Outside

LEMMA StepCases ==
  ASSUME [Next]_vars
  PROVE  \/ \E c \in Calls : Accept(c) \/ GiveUp(c)
         \/ \E c \in Calls : \E end \in Endings : End(c, end)
         \/ Take \/ StartHealth \/ Signal \/ Join \/ CancelRest \/ Return \/ Exit
         \/ Tick \/ PollerOnly \/ DaemonOnly
         \/ UNCHANGED vars
BY DEF Next, HandlerEnds, CommandEnds, MainStep, PollerOnly, DaemonOnly

-----------------------------------------------------------------------------
(* Types.  The queue holds calls that wait in it, each once.               *)

Types ==
  /\ HealthTypeOK
  /\ workers \in 1..MaxWorkers
  /\ main \in {"starting", "serving", "joining", "draining", "returned", "exited"}
  /\ queue \in Seq(Calls)
  /\ call \in [Calls -> {"idle", "queued", "running", "dropped"} \cup Endings]
  /\ peer \in [Calls -> {"none", "waiting", "OK", "ERROR", "UNKNOWN", "gone"}]
  /\ tally \in [{"OK", "ERROR"} -> Nat]
  /\ ending \in 0..Horizon /\ drain \in 0..Grace

Queued ==
  /\ \A i \in 1..Len(queue) : call[queue[i]] = "queued"
  /\ \A i, j \in 1..Len(queue) : queue[i] = queue[j] => i = j

LEMMA HealthTypes ==
  ASSUME HealthTypeOK,
         StartPoller \/ PollerStep \/ DaemonChanges \/ HealthTick \/ UNCHANGED healthVars
  PROVE  HealthTypeOK'
<1> USE DEF HealthTypeOK, As
<1>1. CASE StartPoller
  BY <1>1 DEF StartPoller
<1>2. CASE Loop \/ Probe \/ Nap
  BY <1>2 DEF Loop, Probe, Nap
<1>3. CASE PublishOverall \/ PublishBackend \/ SetGauge
  BY <1>3 DEF PublishOverall, PublishBackend, SetGauge
<1>4. CASE DaemonChanges
  BY <1>4 DEF DaemonChanges
<1>5. CASE HealthTick
  BY <1>5 DEF HealthTick, PollerWaits, Later
<1>6. CASE UNCHANGED healthVars
  BY <1>6 DEF healthVars
<1>. QED BY <1>1, <1>2, <1>3, <1>4, <1>5, <1>6 DEF PollerStep

LEMMA TypesNext == Types /\ [Next]_vars => Types'
<1> SUFFICES ASSUME Types, [Next]_vars PROVE Types'
  OBVIOUS
<1> USE DEF Types
<1>1. ASSUME NEW c \in Calls, Accept(c) PROVE Types'
  <2>1. queue' \in Seq(Calls)
    BY <1>1 DEF Accept
  <2>. QED BY <1>1, <2>1, HealthTypes DEF Accept, mainVars
<1>11. ASSUME NEW c \in Calls, GiveUp(c) PROVE Types'
  BY <1>11, HealthTypes DEF GiveUp, mainVars
<1>2. ASSUME NEW c \in Calls, NEW end \in Endings, End(c, end) PROVE Types'
  <2>1. Tell(c, Answer(end)) \in [Calls -> {"none", "waiting", "OK", "ERROR", "UNKNOWN", "gone"}]
    BY <1>2 DEF Tell, Answer, Endings
  <2>2. tally' \in [{"OK", "ERROR"} -> Nat]
    BY <1>2 DEF End, Counted
  <2>. QED BY <1>2, <2>1, <2>2, HealthTypes DEF End, mainVars
<1>3. CASE Take
  <2>1. Head(queue) \in Calls /\ Tail(queue) \in Seq(Calls)
    BY <1>3 DEF Take
  <2>. QED BY <1>3, <2>1, HealthTypes DEF Take, mainVars
<1>4. CASE StartHealth
  BY <1>4, HealthTypes DEF StartHealth, poolVars
<1>5. CASE Signal
  BY <1>5 DEF Signal, poolVars, HealthTypeOK
<1>6. CASE Join \/ Return \/ Exit
  BY <1>6, HealthTypes DEF Join, Return, Exit, poolVars
<1>7. CASE CancelRest
  BY <1>7, HealthTypes DEF CancelRest, mainVars
<1>8. CASE Tick
  <2>1. ending' \in 0..Horizon
    BY <1>8 DEF Tick, Later
  <2>2. drain' \in 0..Grace
    BY <1>8 DEF Tick, MainWaits
  <2>. QED BY <1>8, <2>1, <2>2, HealthTypes DEF Tick, poolVars
<1>9. CASE PollerOnly \/ DaemonOnly
  BY <1>9, HealthTypes DEF PollerOnly, DaemonOnly, Outside, poolVars, mainVars
<1>10. CASE UNCHANGED vars
  BY <1>10, HealthTypes DEF vars, poolVars, mainVars
<1>. QED BY <1>1, <1>2, <1>3, <1>4, <1>5, <1>6, <1>7, <1>8, <1>9, <1>10, <1>11, StepCases

LEMMA QueuedNext == Types /\ Queued /\ [Next]_vars => Queued'
<1> SUFFICES ASSUME Types, Queued, [Next]_vars PROVE Queued'
  OBVIOUS
<1> USE DEF Queued, Types
<1>1. ASSUME NEW c \in Calls, Accept(c) PROVE Queued'
  <2>1. /\ Len(queue') = Len(queue) + 1 /\ Len(queue) \in Nat
        /\ queue'[Len(queue) + 1] = c
        /\ \A i \in 1..Len(queue) : queue'[i] = queue[i] /\ queue[i] \in Calls
    BY <1>1 DEF Accept
  <2>2. \A i \in 1..Len(queue) : queue[i] # c
    BY <1>1 DEF Accept
  <2>3. \A i \in 1..Len(queue') : call'[queue'[i]] = "queued"
    BY <1>1, <2>1, <2>2 DEF Accept
  <2>4. ASSUME NEW i \in 1..Len(queue'), NEW j \in 1..Len(queue'), queue'[i] = queue'[j]
        PROVE  i = j
    BY <2>1, <2>2, <2>4
  <2>. QED BY <2>3, <2>4
<1>2. ASSUME NEW c \in Calls, GiveUp(c) PROVE Queued'
  BY <1>2 DEF GiveUp
<1>3. ASSUME NEW c \in Calls, NEW end \in Endings, End(c, end) PROVE Queued'
  <2>1. \A i \in 1..Len(queue) : queue[i] # c /\ queue[i] \in Calls
    BY <1>3 DEF End
  <2>. QED BY <1>3, <2>1 DEF End
<1>4. CASE Take
  <2>1. /\ Len(queue) \in Nat \ {0} /\ Len(queue') = Len(queue) - 1
        /\ Head(queue) = queue[1]
        /\ \A i \in 1..Len(queue') : queue'[i] = queue[i + 1]
        /\ \A i \in 1..Len(queue) : queue[i] \in Calls
    BY <1>4 DEF Take
  <2>2. \A i \in 1..Len(queue') : i + 1 \in 1..Len(queue) /\ queue[i + 1] # queue[1]
    BY <2>1
  <2>3. \A i \in 1..Len(queue') : call'[queue'[i]] = "queued"
    BY <1>4, <2>1, <2>2 DEF Take
  <2>. QED BY <2>1, <2>2, <2>3
<1>5. CASE \/ StartHealth \/ Signal \/ Join \/ CancelRest \/ Return \/ Exit
           \/ Tick \/ PollerOnly \/ DaemonOnly \/ UNCHANGED vars
  BY <1>5 DEF StartHealth, Signal, Join, CancelRest, Return, Exit, Tick, PollerOnly,
              DaemonOnly, Outside, vars, poolVars
<1>. QED BY <1>1, <1>2, <1>3, <1>4, <1>5, StepCases

-----------------------------------------------------------------------------
(* The pool and the counter.                                               *)

PoolOK == Cardinality(In("running")) <= workers /\ CountsTrue

LEMMA Sizes ==
  ASSUME Types
  PROVE  /\ \A S \in SUBSET Calls : IsFiniteSet(S) /\ Cardinality(S) \in Nat
         /\ \A s : In(s) \in SUBSET Calls
<1>1. \A S \in SUBSET Calls : IsFiniteSet(S)
  BY FS_Subset
<1>. QED BY <1>1, FS_CardinalityType DEF In

LEMMA TakeKeepsPool == Types /\ Queued /\ PoolOK /\ Take => PoolOK'
<1> SUFFICES ASSUME Types, Queued, PoolOK, Take PROVE PoolOK'
  OBVIOUS
<1> DEFINE c == Head(queue)
<1>1. c \in Calls /\ call[c] = "queued"
  BY DEF Take, Types, Queued
<1>2. /\ In("returned")' = In("returned") /\ In("raised")' = In("raised")
      /\ In("aborted")' = In("aborted")
  BY <1>1 DEF Take, Types, In
<1>3. In("running")' = In("running") \/ In("running")' = In("running") \cup {c}
  BY <1>1 DEF Take, Types, In
<1>4. Cardinality(In("running") \cup {c}) <= Cardinality(In("running")) + 1
  BY <1>1, Sizes, FS_AddElement
<1>5. Cardinality(In("running")') <= workers'
  <2> DEFINE n == Cardinality(In("running"))
             m == Cardinality(In("running") \cup {c})
  <2>1. n \in Nat /\ m \in Nat /\ workers \in Nat
    BY <1>1, Sizes DEF Types
  <2>2. n < workers /\ workers' = workers
    BY DEF Take
  <2>3. n <= workers /\ m <= workers
    BY <1>4, <2>1, <2>2
  <2>. QED BY <1>3, <2>2, <2>3
<1>6. CountsTrue'
  BY <1>2 DEF Take, PoolOK, CountsTrue
<1>. QED BY <1>5, <1>6 DEF PoolOK

LEMMA EndKeepsPool ==
  ASSUME Types, PoolOK, NEW c \in Calls, NEW end \in Endings, End(c, end)
  PROVE  PoolOK'
<1>1. call[c] = "running" /\ c \in In("running")
  BY DEF End, In
<1>0. \A d \in Calls : call'[d] = IF d = c THEN end ELSE call[d]
  BY DEF End, Types
<1>2. In("running")' = In("running") \ {c}
  BY <1>0, end # "running" DEF In, Endings
<1>3. Cardinality(In("running")') <= workers'
  <2>1. Cardinality(In("running") \ {c}) = Cardinality(In("running")) - 1
    BY <1>1, Sizes, FS_RemoveElement
  <2>2. Cardinality(In("running")) <= workers /\ workers' = workers
    BY DEF End, PoolOK
  <2>3. Cardinality(In("running")) \in Nat /\ workers \in Nat
    BY Sizes DEF Types
  <2>4. Cardinality(In("running") \ {c}) <= workers
    BY <2>1, <2>2, <2>3
  <2>. QED BY <1>2, <2>2, <2>4
<1>4. CASE end = "aborted"
  <2>1. /\ In("aborted")' = In("aborted") \cup {c} /\ c \notin In("aborted")
        /\ In("returned")' = In("returned") /\ In("raised")' = In("raised")
    BY <1>0, <1>1, <1>4 DEF In
  <2>2. Cardinality(In("aborted")') = Cardinality(In("aborted")) + 1
    BY <2>1, Sizes, FS_AddElement
  <2>3. tally'["ERROR"] = tally["ERROR"] + 1 /\ tally'["OK"] = tally["OK"]
    BY <1>4 DEF End, Counted, Types
  <2>4. CountsTrue'
    BY <2>1, <2>2, <2>3 DEF PoolOK, CountsTrue
  <2>. QED BY <1>3, <2>4 DEF PoolOK
<1>5. CASE end \in {"returned", "raised"}
  <2> DEFINE Ok == In("returned") \cup In("raised")
  <2>1. /\ In("returned")' \cup In("raised")' = Ok \cup {c} /\ c \notin Ok
        /\ In("aborted")' = In("aborted")
    BY <1>0, <1>1, <1>5 DEF In
  <2>2. Ok \in SUBSET Calls
    BY Sizes
  <2>3. Cardinality(Ok \cup {c}) = Cardinality(Ok) + 1
    BY <2>1, <2>2, Sizes, FS_AddElement
  <2>4. tally'["OK"] = tally["OK"] + 1 /\ tally'["ERROR"] = tally["ERROR"]
    BY <1>5 DEF End, Counted, Types
  <2>5. CountsTrue'
    BY <2>1, <2>3, <2>4 DEF PoolOK, CountsTrue
  <2>. QED BY <1>3, <2>5 DEF PoolOK
<1>. QED BY <1>4, <1>5 DEF Endings

LEMMA PoolNext == Types /\ Queued /\ PoolOK /\ [Next]_vars => PoolOK'
<1> SUFFICES ASSUME Types, Queued, PoolOK, [Next]_vars PROVE PoolOK'
  OBVIOUS
<1>1. ASSUME NEW c \in Calls, Accept(c) \/ GiveUp(c) PROVE PoolOK'
  <2>1. /\ In("running")' = In("running") /\ In("returned")' = In("returned")
        /\ In("raised")' = In("raised") /\ In("aborted")' = In("aborted")
    BY <1>1 DEF Accept, GiveUp, In, Types
  <2>2. UNCHANGED <<workers, tally>>
    BY <1>1 DEF Accept, GiveUp
  <2>. QED BY <2>1, <2>2 DEF PoolOK, CountsTrue
<1>2. CASE \/ StartHealth \/ Signal \/ Join \/ CancelRest \/ Return \/ Exit
           \/ Tick \/ PollerOnly \/ DaemonOnly \/ UNCHANGED vars
  <2>1. UNCHANGED <<workers, call, tally>>
    BY <1>2 DEF StartHealth, Signal, Join, CancelRest, Return, Exit, Tick, PollerOnly,
                DaemonOnly, Outside, vars, poolVars
  <2>. QED BY <2>1 DEF PoolOK, CountsTrue, In
<1>. QED BY <1>1, <1>2, TakeKeepsPool, EndKeepsPool, StepCases

-----------------------------------------------------------------------------
(* How old what is published may be.  A change of the daemon that the      *)
(* published statuses do not show happened since the last probe looked:    *)
(* so its age is bounded by the time since then, which each step of the    *)
(* poller knows.                                                           *)

Right == (\A n \in {Overall, Backend} : status[n] = As(reachable)) /\ gauge = reachable

Probing == {"asking", "answered", "backend", "gauge"}

Ages ==
  /\ poller \in Probing => spent <= ProbeTime /\ (Right \/ settled <= ProbeTime + Interval + spent)
  /\ poller \in Probing \ {"asking"} => found = reachable \/ settled <= spent
  /\ poller \in {"backend", "gauge"} => status[Overall] = As(found)
  /\ poller = "gauge" => status[Backend] = As(found)
  /\ poller = "nap" => spent <= Interval /\ (Right \/ settled <= ProbeTime + spent)
  /\ poller = "head" => Right \/ settled <= ProbeTime + Interval

\* Where the main thread is says whether there is a poller.
Threads ==
  /\ stopping <=> main \notin {"starting", "serving"}
  /\ main = "starting" => poller = "none"
  /\ main \in {"draining", "returned", "exited"} => poller \in {"none", "over"}
  /\ poller = "over" => stopping

LEMMA AgesNext ==
  ASSUME HealthTypeOK, Ages,
         StartPoller \/ PollerStep \/ DaemonChanges \/ HealthTick
  PROVE  Ages'
<1> USE DEF HealthTypeOK, Ages, Probing, Right, As
<1>1. CASE StartPoller
  BY <1>1 DEF StartPoller
<1>2. CASE Loop
  BY <1>2 DEF Loop
<1>3. CASE Probe
  BY <1>3 DEF Probe
<1>4. CASE PublishOverall
  BY <1>4 DEF PublishOverall
<1>5. CASE PublishBackend
  BY <1>5 DEF PublishBackend, Overall, Backend
<1>6. CASE SetGauge
  BY <1>6 DEF SetGauge
<1>7. CASE Nap
  BY <1>7 DEF Nap
<1>8. CASE DaemonChanges
  BY <1>8 DEF DaemonChanges
<1>9. CASE HealthTick
  BY <1>9 DEF HealthTick, PollerWaits, Later
<1>. QED BY <1>1, <1>2, <1>3, <1>4, <1>5, <1>6, <1>7, <1>8, <1>9 DEF PollerStep

LEMMA HealthNext == Types /\ Ages /\ Threads /\ [Next]_vars => Ages' /\ Threads'
<1> SUFFICES ASSUME Types, Ages, Threads, [Next]_vars PROVE Ages' /\ Threads'
  OBVIOUS
<1>0. HealthTypeOK
  BY DEF Types
<1>1. CASE UNCHANGED <<healthVars, main>>
  BY <1>1 DEF healthVars, Ages, Threads, Right
<1>2. CASE StartHealth
  BY <1>0, <1>2, AgesNext DEF StartHealth, StartPoller, Threads
<1>3. CASE Signal
  BY <1>3 DEF Signal, Ages, Threads, Right
<1>4. CASE Join \/ Return \/ Exit
  BY <1>4 DEF Join, Return, Exit, healthVars, Ages, Threads, Right
<1>5. CASE Tick
  BY <1>0, <1>5, AgesNext DEF Tick, HealthTick, Threads
<1>6. CASE PollerOnly
  <2>1. Ages' /\ main' = main
    BY <1>0, <1>6, AgesNext DEF PollerOnly, Outside, mainVars
  <2>2. Threads'
    BY <1>6, <2>1 DEF PollerOnly, PollerStep, Loop, Probe, PublishOverall, PublishBackend,
                      SetGauge, Nap, Threads
  <2>. QED BY <2>1, <2>2
<1>7. CASE DaemonOnly
  BY <1>0, <1>7, AgesNext DEF DaemonOnly, DaemonChanges, Outside, mainVars, Threads
<1>8. ASSUME NEW c \in Calls, Accept(c) \/ GiveUp(c) \/ \E end \in Endings : End(c, end)
      PROVE  UNCHANGED <<healthVars, main>>
  BY <1>8 DEF Accept, GiveUp, End, mainVars
<1>9. CASE Take \/ CancelRest \/ UNCHANGED vars
  BY <1>1, <1>9 DEF Take, CancelRest, vars, mainVars
<1>. QED BY <1>1, <1>2, <1>3, <1>4, <1>5, <1>6, <1>7, <1>8, <1>9, StepCases

LEMMA AgesFresh == HealthTypeOK /\ Ages /\ Threads => Fresh
BY DEF HealthTypeOK, Ages, Threads, Fresh, Probing, Right

-----------------------------------------------------------------------------
(* How long the way down takes.                                            *)

Deadlines ==
  /\ main \in {"starting", "serving"} => ending = 0
  /\ main \in {"starting", "serving", "joining"} => drain = 0
  /\ main = "joining" /\ poller \in Probing => ending <= spent
  /\ main = "joining" /\ poller = "head" => ending <= ProbeTime
  /\ ShutdownTimely

LEMMA DeadlinesNext ==
  Types /\ Ages /\ Threads /\ Deadlines /\ [Next]_vars => Deadlines'
<1> SUFFICES ASSUME Types, Ages, Threads, Deadlines, [Next]_vars PROVE Deadlines'
  OBVIOUS
<1> USE DEF Deadlines, ShutdownTimely, Types, HealthTypeOK, Threads, Probing
<1>1. CASE UNCHANGED <<healthVars, mainVars>>
  BY <1>1 DEF healthVars, mainVars
<1>2. CASE StartHealth
  BY <1>2 DEF StartHealth
<1>3. CASE Signal
  BY <1>3 DEF Signal
<1>4. CASE Join \/ Return \/ Exit
  BY <1>4 DEF Join, Return, Exit, healthVars
<1>5. CASE Tick
  <2>1. /\ UNCHANGED <<main, poller>> /\ MainWaits /\ PollerWaits
        /\ spent' = IF poller \in {"none", "over"} THEN spent ELSE spent + 1
        /\ ending' = IF main \in {"joining", "draining"} THEN Later(ending) ELSE ending
        /\ drain' = IF main = "draining" THEN drain + 1 ELSE drain
    BY <1>5 DEF Tick, HealthTick
  <2>2. /\ ending \in Nat /\ spent \in Nat /\ drain \in Nat
        /\ Later(ending) \in Nat /\ Later(ending) <= ending + 1
    BY DEF Later
  <2>3. CASE main = "joining"
    <3>1. poller \in {"asking", "answered"} /\ spent < ProbeTime
      BY <2>1, <2>3 DEF MainWaits, PollerWaits
    <3>2. ending <= spent /\ spent' = spent + 1 /\ ending' = Later(ending)
      BY <2>1, <2>3, <3>1
    <3>3. main' = "joining" /\ drain' = 0 /\ ending' <= spent' /\ spent' <= ProbeTime
      BY <2>1, <2>2, <2>3, <3>1, <3>2
    <3>4. ending' <= ProbeTime
      BY <2>2, <3>2, <3>3
    <3>. QED BY <3>3, <3>4
  <2>4. CASE main = "draining"
    <3>1. ending' <= ProbeTime + drain' /\ main' = "draining"
      BY <2>1, <2>2, <2>4
    <3>. QED BY <3>1
  <2>. QED BY <2>1, <2>3, <2>4
<1>6. CASE PollerOnly
  BY <1>6 DEF PollerOnly, PollerStep, Loop, Probe, PublishOverall, PublishBackend,
              SetGauge, Nap, Outside, mainVars
<1>7. CASE DaemonOnly
  BY <1>7 DEF DaemonOnly, DaemonChanges, Outside, mainVars
<1>8. ASSUME NEW c \in Calls, Accept(c) \/ GiveUp(c) \/ \E end \in Endings : End(c, end)
      PROVE  UNCHANGED <<healthVars, mainVars>>
  BY <1>8 DEF Accept, GiveUp, End
<1>9. CASE Take \/ CancelRest \/ UNCHANGED vars
  BY <1>1, <1>9 DEF Take, CancelRest, vars
<1>. QED BY <1>1, <1>2, <1>3, <1>4, <1>5, <1>6, <1>7, <1>8, <1>9, StepCases

-----------------------------------------------------------------------------
(* What the runner knows of its calls.  The process does not end before    *)
(* the queue is empty, so a queued call has to be in the queue.            *)

Promised ==
  \A c \in Calls : call[c] = "queued" => \E i \in 1..Len(queue) : queue[i] = c

LEMMA PromisedNext == Types /\ Queued /\ Promised /\ [Next]_vars => Promised'
<1> SUFFICES ASSUME Types, Queued, Promised, [Next]_vars PROVE Promised'
  OBVIOUS
<1> USE DEF Promised, Types
<1>1. ASSUME NEW c \in Calls, Accept(c) PROVE Promised'
  <2>1. /\ Len(queue') = Len(queue) + 1 /\ Len(queue) \in Nat
        /\ queue'[Len(queue) + 1] = c
        /\ \A i \in 1..Len(queue) : queue'[i] = queue[i]
    BY <1>1 DEF Accept
  <2>2. \A d \in Calls \ {c} : call'[d] = call[d]
    BY <1>1 DEF Accept
  <2>3. ASSUME NEW d \in Calls, call'[d] = "queued"
        PROVE  \E i \in 1..Len(queue') : queue'[i] = d
    <3>1. CASE d = c
      <4>1. Len(queue) + 1 \in 1..Len(queue')
        BY <2>1
      <4>. QED BY <2>1, <3>1, <4>1
    <3>2. CASE d # c
      <4>1. PICK i \in 1..Len(queue) : queue[i] = d
        BY <2>2, <2>3, <3>2
      <4>2. i \in 1..Len(queue') /\ queue'[i] = d
        BY <2>1, <4>1
      <4>. QED BY <4>2
    <3>. QED BY <3>1, <3>2
  <2>. QED BY <2>3
<1>2. ASSUME NEW c \in Calls, GiveUp(c) PROVE Promised'
  BY <1>2 DEF GiveUp
<1>3. ASSUME NEW c \in Calls, NEW end \in Endings, End(c, end) PROVE Promised'
  BY <1>3 DEF End, Endings
<1>4. CASE Take
  <2>1. /\ Len(queue) \in Nat \ {0} /\ Len(queue') = Len(queue) - 1
        /\ Head(queue) = queue[1]
        /\ \A i \in 1..Len(queue') : queue'[i] = queue[i + 1]
        /\ queue[1] \in Calls
    BY <1>4 DEF Take
  <2>2. ASSUME NEW d \in Calls, call'[d] = "queued"
        PROVE  \E i \in 1..Len(queue') : queue'[i] = d
    <3>1. call[d] = "queued" /\ d # queue[1]
      BY <1>4, <2>1, <2>2 DEF Take
    <3>2. PICK i \in 1..Len(queue) : queue[i] = d
      BY <3>1
    <3>3. i - 1 \in 1..Len(queue') /\ (i - 1) + 1 = i
      BY <2>1, <3>1, <3>2
    <3>4. queue'[i - 1] = d
      BY <2>1, <3>2, <3>3
    <3>. QED BY <3>3, <3>4
  <2>. QED BY <2>2
<1>5. CASE \/ StartHealth \/ Signal \/ Join \/ CancelRest \/ Return \/ Exit
           \/ Tick \/ PollerOnly \/ DaemonOnly \/ UNCHANGED vars
  BY <1>5 DEF StartHealth, Signal, Join, CancelRest, Return, Exit, Tick, PollerOnly,
              DaemonOnly, Outside, vars, poolVars
<1>. QED BY <1>1, <1>2, <1>3, <1>4, <1>5, StepCases

\* A call nobody has made yet is one nobody waits for.
Fate ==
  /\ NobodyLeftWaiting
  /\ \A c \in Calls : call[c] = "idle" <=> peer[c] = "none"
  /\ main = "exited" => queue = <<>>

LEMMA FateNext == Types /\ Queued /\ Promised /\ Fate /\ [Next]_vars => Fate'
<1> SUFFICES ASSUME Types, Queued, Promised, Fate, [Next]_vars PROVE Fate'
  OBVIOUS
<1> USE DEF Fate, NobodyLeftWaiting, Types, Endings
<1>1. ASSUME NEW c \in Calls, Accept(c) PROVE Fate'
  <2>1. /\ main' = main /\ main \notin {"draining", "returned", "exited"}
        /\ call'[c] = "queued" /\ peer'[c] = "waiting"
        /\ \A d \in Calls \ {c} : call'[d] = call[d] /\ peer'[d] = peer[d]
    BY <1>1 DEF Accept, mainVars
  <2>. QED BY <2>1
<1>2. ASSUME NEW c \in Calls, GiveUp(c) PROVE Fate'
  <2>1. /\ UNCHANGED <<main, call, queue>> /\ peer[c] = "waiting" /\ peer'[c] = "gone"
        /\ \A d \in Calls \ {c} : peer'[d] = peer[d]
    BY <1>2 DEF GiveUp, mainVars
  <2>. QED BY <2>1
<1>3. ASSUME NEW c \in Calls, NEW end \in Endings, End(c, end) PROVE Fate'
  <2>1. /\ UNCHANGED <<main, queue>> /\ call[c] = "running" /\ call'[c] = end
        /\ \A d \in Calls \ {c} : call'[d] = call[d]
    BY <1>3 DEF End, mainVars
  <2>2. /\ peer'[c] = IF peer[c] = "waiting" THEN Answer(end) ELSE peer[c]
        /\ \A d \in Calls \ {c} : peer'[d] = peer[d]
    BY <1>3 DEF End, Tell
  <2>3. Answer(end) \in {"OK", "ERROR", "UNKNOWN"}
    BY DEF Answer
  <2>4. peer[c] \notin {"none", "OK", "ERROR", "UNKNOWN"}
    BY <2>1
  <2>. QED BY <2>1, <2>2, <2>3, <2>4
<1>4. CASE Take
  <2> DEFINE c == Head(queue)
  <2>1. c \in Calls /\ call[c] = "queued"
    BY <1>4 DEF Take, Queued
  <2>2. /\ UNCHANGED <<main, peer>> /\ main # "exited"
        /\ call'[c] = IF peer[c] = "waiting" THEN "running" ELSE "dropped"
        /\ \A d \in Calls \ {c} : call'[d] = call[d]
    BY <1>4, <2>1 DEF Take, mainVars
  <2>3. peer[c] \in {"waiting", "gone"}
    BY <2>1
  <2> HIDE DEF c
  <2>. QED BY <2>1, <2>2, <2>3
<1>5. CASE Exit
  <2>1. /\ main = "returned" /\ main' = "exited" /\ queue = <<>> /\ In("running") = {}
        /\ UNCHANGED <<call, peer, queue>>
    BY <1>5 DEF Exit, poolVars
  <2>2. \A c \in Calls : call[c] # "running"
    BY <2>1 DEF In
  <2>3. \A c \in Calls : call[c] # "queued"
    BY <2>1 DEF Promised
  <2>. QED BY <2>1, <2>2, <2>3
<1>6. CASE Return
  BY <1>6 DEF Return, poolVars
<1>7. CASE CancelRest
  <2>1. /\ UNCHANGED <<main, call, queue>>
        /\ \A c \in Calls : peer'[c] = IF peer[c] = "waiting" THEN "gone" ELSE peer[c]
    BY <1>7 DEF CancelRest, mainVars
  <2>. QED BY <2>1
<1>8. CASE StartHealth \/ Signal \/ Join
  <2>1. main' \notin {"returned", "exited"} /\ UNCHANGED <<call, peer, queue>>
    BY <1>8 DEF StartHealth, Signal, Join, poolVars
  <2>. QED BY <2>1
<1>9. CASE Tick \/ PollerOnly \/ DaemonOnly \/ UNCHANGED vars
  <2>1. UNCHANGED <<main, call, peer, queue>>
    BY <1>9 DEF Tick, PollerOnly, DaemonOnly, Outside, vars, poolVars, mainVars
  <2>. QED BY <2>1
<1>. QED BY <1>1, <1>2, <1>3, <1>4, <1>5, <1>6, <1>7, <1>8, <1>9, StepCases

-----------------------------------------------------------------------------
(* The invariant, and the theorems.                                        *)

Inv == Types /\ Queued /\ Promised /\ Fate /\ PoolOK /\ Ages /\ Threads /\ Deadlines

LEMMA InitInv == Init => Inv
<1> SUFFICES ASSUME Init PROVE Inv
  OBVIOUS
<1> USE DEF Init, HealthInit
<1>1. Types
  <2>1. status \in [{Overall, Backend} -> {"SERVICE_UNKNOWN", "SERVING", "NOT_SERVING"}]
    <3>1. \A n \in {Overall, Backend} :
            status[n] \in {"SERVICE_UNKNOWN", "SERVING", "NOT_SERVING"}
      OBVIOUS
    <3>. QED BY <3>1
  <2>3. HealthTypeOK
    <3>1. spent \in 0..Horizon /\ settled \in 0..Horizon
      OBVIOUS
    <3>2. /\ reachable \in BOOLEAN /\ polling \in BOOLEAN /\ stopping \in BOOLEAN
          /\ found \in BOOLEAN /\ gauge \in BOOLEAN
      BY Zenon
    <3>. QED BY <2>1, <3>1, <3>2 DEF HealthTypeOK
  <2>2. queue \in Seq(Calls)
    OBVIOUS
  <2>. QED BY <2>2, <2>3 DEF Types
<1>2. Queued
  BY DEF Queued
<1>3. In("running") = {} /\ In("returned") \cup In("raised") = {} /\ In("aborted") = {}
  BY DEF In
<1>4. PoolOK
  <2>1. Cardinality({}) = 0
    BY FS_EmptySet
  <2>2. tally["OK"] = 0 /\ tally["ERROR"] = 0 /\ 0 <= workers
    BY <1>1 DEF Types
  <2>. QED BY <1>3, <2>1, <2>2 DEF PoolOK, CountsTrue
<1>5. Ages /\ Threads
  BY DEF Ages, Threads, Probing
<1>6. Deadlines
  BY DEF Deadlines, ShutdownTimely, Probing
<1>7. Promised /\ Fate
  BY DEF Promised, Fate, NobodyLeftWaiting
<1>. QED BY <1>1, <1>2, <1>4, <1>5, <1>6, <1>7 DEF Inv

LEMMA ServerInv == Spec => []Inv
<1>1. Inv /\ [Next]_vars => Inv'
  BY TypesNext, QueuedNext, PromisedNext, FateNext, PoolNext, HealthNext, DeadlinesNext DEF Inv
<1>. QED BY <1>1, InitInv, PTL DEF Spec

\* Types, and never more handlers at work than the pool has workers.
THEOREM ServerTypes == Spec => []TypeOK
<1>1. Inv => TypeOK
  BY DEF Inv, Types, PoolOK, TypeOK
<1>. QED BY <1>1, ServerInv, PTL

\* For any interval and any bound on a probe: a state of the daemon that has
\* lasted for a nap and two probes is what both names and the gauge say.
THEOREM PublishedIsFresh == Spec => []Fresh
<1>1. Inv => Fresh
  BY AgesFresh DEF Inv, Types
<1>. QED BY <1>1, ServerInv, PTL

\* For any calls and workers: the counter has each ended handler once, under
\* the code its context had then.
THEOREM EveryCallCounted == Spec => []CountsTrue
<1>1. Inv => CountsTrue
  BY DEF Inv, PoolOK
<1>. QED BY <1>1, ServerInv, PTL

\* For any probe time and grace: how long after the signal serve() returns.
THEOREM ShutdownIsTimely == Spec => []ShutdownTimely
<1>1. Inv => ShutdownTimely
  BY DEF Inv, Deadlines
<1>. QED BY <1>1, ServerInv, PTL

\* For any calls, workers and moment of the signal: no runner waits for a call
\* that no thread has or will have, is told another end than its handler's, or is
\* left waiting when serve() returns, and no call is lost in the queue.
THEOREM EveryCallSettled == Spec => []NobodyLeftWaiting
<1>1. Inv => NobodyLeftWaiting
  BY DEF Inv, Fate
<1>. QED BY <1>1, ServerInv, PTL

\* Nothing is published once server.stop() has been called.
THEOREM StoppedIsQuiet == Spec => QuietAfterStop
<1>1. Inv /\ [Next]_vars =>
        [(main \in {"draining", "returned", "exited"}) => UNCHANGED publishedVars]_vars
  <2> SUFFICES ASSUME Inv, [Next]_vars, main \in {"draining", "returned", "exited"}
               PROVE  UNCHANGED publishedVars
    OBVIOUS
  <2>1. poller \in {"none", "over"}
    BY DEF Inv, Threads
  <2>2. ASSUME NEW c \in Calls, Accept(c) \/ GiveUp(c) \/ \E end \in Endings : End(c, end)
        PROVE  UNCHANGED healthVars
    BY <2>2 DEF Accept, GiveUp, End
  <2>3. CASE \/ Take \/ Signal \/ Join \/ CancelRest \/ Return \/ Exit
             \/ Tick \/ DaemonOnly \/ UNCHANGED vars
    BY <2>3 DEF Take, Signal, Join, CancelRest, Return, Exit, Tick, HealthTick, DaemonOnly,
                DaemonChanges, vars, healthVars, publishedVars
  <2>4. CASE StartHealth \/ PollerOnly
    BY <2>1, <2>4 DEF StartHealth, PollerOnly, PollerStep, Loop, Probe, PublishOverall,
                      PublishBackend, SetGauge, Nap, publishedVars
  <2>. QED BY <2>2, <2>3, <2>4, StepCases DEF healthVars, publishedVars
<1>. QED BY <1>1, ServerInv, PTL DEF Spec, QuietAfterStop

=============================================================================
