------------------------------- MODULE Server -------------------------------
(***************************************************************************)
(* serve (__main__.py): the pool of worker threads and the queue of calls  *)
(* before it, the interceptor that counts the calls (metrics.py), and the  *)
(* way down after a signal, with the health poller of Health.              *)
(*                                                                         *)
(* A call's handler is one state, "running"; what the handlers do is in    *)
(* the other modules.  Only its end matters here, and that the command of  *)
(* an Exec may never end unless the environment is removed.                *)
(***************************************************************************)
EXTENDS Health, Sequences, FiniteSets

CONSTANTS
  Calls,      \* bound: the calls the runner makes
  Commands,   \* the Exec calls among them
  Releases,   \* [Calls -> SUBSET Commands]: what a Remove puts an end to
  MaxWorkers, \* bound: the size of the thread pool
  Grace       \* ticks between server.stop and the cancellation of what is left

ASSUME ServerAssumption ==
  /\ IsFiniteSet(Calls) /\ Commands \subseteq Calls
  /\ Releases \in [Calls -> SUBSET Commands]
  /\ MaxWorkers \in Nat \ {0}
  /\ Grace \in Nat /\ ProbeTime + Grace < Horizon

VARIABLES
  workers, \* --workers
  main,    \* what the main thread does
  queue,   \* the work queue of the thread pool
  call,    \* [Calls -> how far the call is, or how its handler ended]
  peer,    \* [Calls -> what the runner knows of its call]
  tally,   \* the counter rpc_requests, by code
  ending,  \* history: ticks since the signal
  drain    \* ticks since server.stop

poolVars == <<workers, queue, call, peer, tally>>
mainVars == <<main, ending, drain>>
vars == <<healthVars, poolVars, mainVars>>

Endings == {"returned", "aborted", "raised"}
In(state) == {c \in Calls : call[c] = state}

Init ==
  /\ HealthInit
  /\ workers \in 1..MaxWorkers
  /\ main = "starting" /\ queue = <<>>
  /\ call = [c \in Calls |-> "idle"] /\ peer = [c \in Calls |-> "none"]
  /\ tally = [code \in {"OK", "ERROR"} |-> 0]
  /\ ending = 0 /\ drain = 0

\* The code the interceptor finds in the context: only abort() sets one, and
\* grpc makes an exception UNKNOWN after the interceptor has counted it.
Counted(end) == IF end = "aborted" THEN "ERROR" ELSE "OK"

Answer(end) ==
  CASE end = "returned" -> "OK" [] end = "aborted" -> "ERROR" [] end = "raised" -> "UNKNOWN"

\* The runner learns how its call ended, if it still listens.
Tell(c, what) == IF peer[c] = "waiting" THEN [peer EXCEPT ![c] = what] ELSE peer

-----------------------------------------------------------------------------
(* Slips that a change of the code could make; each breaks a property.     *)

Take_OneTooMany ==
  /\ queue # <<>> /\ Cardinality(In("running")) <= workers
  /\ LET c == Head(queue) IN
       call' = [call EXCEPT ![c] = IF peer[c] = "waiting" THEN "running" ELSE "dropped"]
  /\ queue' = Tail(queue)
  /\ UNCHANGED <<healthVars, mainVars, workers, peer, tally>>

Take_OneTooFew ==
  /\ queue # <<>> /\ Cardinality(In("running")) < workers - 1
  /\ LET c == Head(queue) IN
       call' = [call EXCEPT ![c] = IF peer[c] = "waiting" THEN "running" ELSE "dropped"]
  /\ queue' = Tail(queue)
  /\ UNCHANGED <<healthVars, mainVars, workers, peer, tally>>

\* The interceptor counts after the handler, not in a `finally`.
End_CountsReturns(c, end) ==
  /\ call[c] = "running"
  /\ call' = [call EXCEPT ![c] = end]
  /\ tally' = IF end = "returned" THEN [tally EXCEPT !["OK"] = @ + 1] ELSE tally
  /\ peer' = Tell(c, Answer(end))
  /\ UNCHANGED <<healthVars, mainVars, workers, queue>>

\* stop() joins the poller without telling it.
Signal_NoEvent ==
  /\ main = "serving"
  /\ main' = "joining"
  /\ UNCHANGED <<healthVars, poolVars, ending, drain>>

\* stop() does not join the poller.
Join_NoWait ==
  /\ main = "joining"
  /\ main' = "draining"
  /\ UNCHANGED <<healthVars, poolVars, ending, drain>>

\* server.stop() has no grace period but all the time in the world.
CancelRest_Never == FALSE /\ UNCHANGED vars

-----------------------------------------------------------------------------
(* The calls.                                                              *)

\* The server takes calls from server.start() until server.stop(), so while the
\* poller is joined as well.
Accept(c) ==
  /\ main \in {"starting", "serving", "joining"}
  /\ call[c] = "idle"
  /\ call' = [call EXCEPT ![c] = "queued"]
  /\ peer' = [peer EXCEPT ![c] = "waiting"]
  /\ queue' = Append(queue, c)
  /\ UNCHANGED <<healthVars, mainVars, workers, tally>>

\* The runner cancels its call, or its deadline passes.
GiveUp(c) ==
  /\ peer[c] = "waiting"
  /\ peer' = [peer EXCEPT ![c] = "gone"]
  /\ UNCHANGED <<healthVars, mainVars, workers, queue, call, tally>>

\* A worker takes the next call; grpc does not run the handler of one that is
\* over already.
Take ==
  /\ queue # <<>> /\ Cardinality(In("running")) < workers
  /\ LET c == Head(queue) IN
       call' = [call EXCEPT ![c] = IF peer[c] = "waiting" THEN "running" ELSE "dropped"]
  /\ queue' = Tail(queue)
  /\ UNCHANGED <<healthVars, mainVars, workers, peer, tally>>

End(c, end) ==
  /\ call[c] = "running"
  /\ call' = [call EXCEPT ![c] = end]
  /\ tally' = [tally EXCEPT ![Counted(end)] = @ + 1]
  /\ peer' = Tell(c, Answer(end))
  /\ UNCHANGED <<healthVars, mainVars, workers, queue>>

\* The instance in which c's command runs has been removed.
Released(c) == \E r \in Calls : c \in Releases[r] /\ call[r] = "returned"

\* A handler comes to its end by itself, save that of a command.
HandlerEnds(c) ==
  /\ c \in Commands => Released(c)
  /\ \E end \in Endings : End(c, end)

CommandEnds(c) ==
  /\ c \in Commands /\ ~Released(c)
  /\ \E end \in Endings : End(c, end)

-----------------------------------------------------------------------------
(* The main thread.                                                        *)

StartHealth ==
  /\ main = "starting"
  /\ StartPoller
  /\ main' = "serving"
  /\ UNCHANGED <<poolVars, ending, drain>>

\* The signal's handler wakes the main thread, which tells the poller to stop.
Signal ==
  /\ main = "serving"
  /\ main' = "joining" /\ stopping' = TRUE
  /\ UNCHANGED <<reachable, polling, poller, spent, found, status, gauge, settled,
                 poolVars, ending, drain>>

\* join() of the poller, then server.stop().
Join ==
  /\ main = "joining" /\ poller \in {"none", "over"}
  /\ main' = "draining"
  /\ UNCHANGED <<healthVars, poolVars, ending, drain>>

\* grpc cancels the calls that are left when the grace period is over.
CancelRest ==
  /\ main = "draining" /\ drain = Grace
  /\ \E c \in Calls : peer[c] = "waiting"
  /\ peer' = [c \in Calls |-> IF peer[c] = "waiting" THEN "gone" ELSE peer[c]]
  /\ UNCHANGED <<healthVars, mainVars, workers, queue, call, tally>>

\* server.stop(...).wait() returns when no call is open, and serve() with it.
Return ==
  /\ main = "draining" /\ \A c \in Calls : peer[c] # "waiting"
  /\ main' = "returned"
  /\ UNCHANGED <<healthVars, poolVars, ending, drain>>

\* The interpreter joins the worker threads, which empty the queue first.
Exit ==
  /\ main = "returned" /\ queue = <<>> /\ In("running") = {}
  /\ main' = "exited"
  /\ UNCHANGED <<healthVars, poolVars, ending, drain>>

MainStep == StartHealth \/ Join \/ CancelRest \/ Return \/ Exit

\* What can be done at once is done before the clock ticks.
MainWaits ==
  CASE main = "joining" -> poller \notin {"none", "over"}
    [] main = "draining" -> drain < Grace /\ \E c \in Calls : peer[c] = "waiting"
    [] OTHER -> TRUE

Tick ==
  /\ main # "exited" /\ MainWaits
  /\ HealthTick
  /\ ending' = IF main \in {"joining", "draining"} THEN Later(ending) ELSE ending
  /\ drain' = IF main = "draining" THEN drain + 1 ELSE drain
  /\ UNCHANGED <<main, poolVars>>

Outside == UNCHANGED <<poolVars, mainVars>>

Next == \/ \E c \in Calls : Accept(c) \/ GiveUp(c) \/ HandlerEnds(c) \/ CommandEnds(c)
        \/ Take \/ MainStep \/ Signal \/ Tick
        \/ PollerStep /\ Outside
        \/ main # "exited" /\ DaemonChanges /\ Outside

Spec == Init /\ [][Next]_vars

\* Threads run and time passes.  No call has to come, no command to end, and no
\* signal.
FairSpec ==
  /\ Spec
  /\ WF_vars(PollerStep /\ Outside) /\ WF_vars(MainStep) /\ WF_vars(Tick) /\ WF_vars(Take)
  /\ \A c \in Calls : WF_vars(HandlerEnds(c))

-----------------------------------------------------------------------------
TypeOK ==
  /\ HealthTypeOK
  /\ workers \in 1..MaxWorkers
  /\ main \in {"starting", "serving", "joining", "draining", "returned", "exited"}
  /\ queue \in Seq(Calls)
  /\ call \in [Calls -> {"idle", "queued", "running", "dropped"} \cup Endings]
  /\ Cardinality(In("running")) <= workers
  /\ peer \in [Calls -> {"none", "waiting", "OK", "ERROR", "UNKNOWN", "gone"}]
  /\ tally \in [{"OK", "ERROR"} -> Nat]
  /\ ending \in 0..Horizon /\ drain \in 0..Grace

\* The counter has every call whose handler has ended once, under ERROR if the
\* handler aborted and under OK else, whatever became of the runner's interest:
\* so a call the runner saw fail as UNKNOWN is counted as OK.
CountsTrue ==
  /\ tally["OK"] = Cardinality(In("returned") \cup In("raised"))
  /\ tally["ERROR"] = Cardinality(In("aborted"))

\* The runner is told the truth or nothing: it waits only for what a thread has
\* or will have, an answer is the one its handler's end makes, only a call that
\* nobody waits for any more is thrown away, serve() leaves no runner waiting, and
\* the process leaves no call in the queue or half done.
NobodyLeftWaiting ==
  /\ \A c \in Calls :
       /\ peer[c] = "waiting" => call[c] \in {"queued", "running"}
       /\ peer[c] \in {"OK", "ERROR", "UNKNOWN"} =>
            call[c] \in Endings /\ peer[c] = Answer(call[c])
       /\ call[c] = "dropped" => peer[c] = "gone"
  /\ main \in {"returned", "exited"} => \A c \in Calls : peer[c] # "waiting"
  /\ main = "exited" => \A c \in Calls : call[c] \notin {"queued", "running"}

\* From the moment server.stop() is called nothing is published any more: a
\* health client that still gets an answer gets the last probe's.
QuietAfterStop ==
  [][(main \in {"draining", "returned", "exited"}) => UNCHANGED publishedVars]_vars

\* serve() returns within a probe's time and the grace period of the signal,
\* and the calls have that grace for themselves.
ShutdownTimely ==
  /\ main = "joining" => ending <= ProbeTime
  /\ main = "draining" => ending <= ProbeTime + drain

\* All workers run commands.
Held == Cardinality(In("running") \cap Commands) = workers

\* A call that waits for a worker for ever waits behind commands that hold all
\* the workers for ever: a Remove that would end them among others.
StarvedOnlyIfHeld ==
  \A c \in Calls : <>[](call[c] = "queued") => <>[]Held

\* After a signal serve() returns, and the process is gone but for commands that
\* do not end.
ShutdownEnds ==
  /\ main = "joining" ~> main \in {"returned", "exited"}
  /\ <>[](main = "returned") => <>[](In("running") \cap Commands # {})

=============================================================================
