----------------------------- MODULE ExecStream -----------------------------
(***************************************************************************)
(* One Exec call: the handler (server.py) iterating over exec_stream       *)
(* (client.py), which holds the control and stdin websockets of an exec    *)
(* operation open, drains stdout and stderr in a thread each into one      *)
(* queue, and asks the operation's record for the exit code at the end.    *)
(*                                                                         *)
(* A frame is its stream and its number.  The queue is unbounded, as in    *)
(* the code; MaxFrames bounds what the command writes to each stream.      *)
(***************************************************************************)
EXTENDS Naturals, Sequences

CONSTANTS
  MaxFrames,  \* frames the command writes to a stream, at most
  Codes,      \* exit codes of commands
  Nothing,    \* no exit code
  Faults      \* the kinds of fault this behaviour may show

FaultKinds == {
  "unknown",     \* the environment is not on record
  "user",        \* the user name is unknown, or its lookup fails
  "refused",     \* the exec request fails, or lacks a websocket secret
  "unreachable", \* a websocket cannot be connected
  "dropped",     \* a stream's websocket breaks
  "unfinished",  \* the operation fails for another reason than the command
  "bare",        \* the record of a command that ended has no exit code
  "forgotten",   \* the daemon forgets the record of a finished operation
  "lost" }       \* a request about the operation fails

ASSUME ExecStreamAssumption ==
  /\ MaxFrames \in Nat
  /\ Codes \subseteq Nat /\ Nothing \notin Nat
  /\ Faults \subseteq FaultKinds

Can(kind) == kind \in Faults

Streams == {"stdout", "stderr"}
Sockets == Streams \cup {"control", "stdin"}
Frames == [kind : Streams, number : 1..MaxFrames]

\* What a drain thread puts on the queue last, and if it cannot connect.
EndOfStream == [kind |-> "None", number |-> 0]
Failure == [kind |-> "_error", number |-> 0]

VARIABLES
  machine,   \* daemon: the instance is a virtual machine
  command,   \* daemon: "none", "waiting" for its websockets, "running" or "over"
  code,      \* daemon: the command's exit code
  record,    \* daemon: how the operation's record says the command ended
  forgotten, \* daemon: the record is gone
  made,      \* daemon: frames written to each stream
  socket,    \* "none", "open" or "closed", per websocket
  drain,     \* drain threads: "off", "connect", "read" or "over"
  read,      \* frames each drain thread has read
  cut,       \* the streams whose websocket broke
  queue,     \* out_q
  pc,        \* the handler
  remaining, \* streams whose end the handler has not seen
  sent,      \* the frames the runner was sent
  outcome,   \* "none", "exit", "failed", "rejected", "escaped" or "cancelled"
  exit,      \* the exit code the runner was sent
  cancelled  \* the runner has cancelled the call

daemonVars == <<machine, command, code, record, forgotten, made>>
threadVars == <<drain, read, cut>>
runnerVars == <<sent, outcome, exit>>
vars == <<machine, command, code, record, forgotten, made, socket, drain, read, cut, queue,
          pc, remaining, sent, outcome, exit, cancelled>>

Init ==
  /\ machine \in BOOLEAN
  /\ command = "none" /\ code = Nothing
  /\ record = "running" /\ forgotten = FALSE
  /\ made = [s \in Streams |-> 0]
  /\ socket = [s \in Sockets |-> "none"]
  /\ drain = [s \in Streams |-> "off"]
  /\ read = [s \in Streams |-> 0] /\ cut = {}
  /\ queue = <<>>
  /\ pc = "lookup" /\ remaining = 2
  /\ sent = <<>> /\ outcome = "none" /\ exit = Nothing /\ cancelled = FALSE

-----------------------------------------------------------------------------
(* The handler.                                                            *)

\* An error of exec_stream that is caught ends the call as ExecFailed, another
\* one escapes; a bad request is rejected by an abort.
Finish(how) == pc' = "done" /\ outcome' = how /\ UNCHANGED <<sent, exit>>

Lookup ==
  /\ pc = "lookup"
  /\ \/ pc' = "wrap" /\ UNCHANGED runnerVars
     \/ Can("unknown") /\ Finish("rejected")
  /\ UNCHANGED <<daemonVars, socket, threadVars, queue, remaining, cancelled>>

\* executor.wrap.  A user's name is looked up by an exec of its own: a name
\* that is not there is rejected, an error of that exec is caught by nobody.
Wrap ==
  /\ pc = "wrap"
  /\ \/ pc' = "post" /\ UNCHANGED runnerVars
     \/ Can("user") /\ \E how \in {"rejected", "escaped"} : Finish(how)
  /\ UNCHANGED <<daemonVars, socket, threadVars, queue, remaining, cancelled>>

Post ==
  /\ pc = "post"
  /\ \/ command' = "waiting" /\ pc' = "control" /\ UNCHANGED runnerVars
     \/ Can("refused") /\ Finish("failed") /\ command' \in {"none", "waiting"}
  /\ UNCHANGED <<machine, code, record, forgotten, made, socket, threadVars, queue, remaining,
                 cancelled>>

\* The control and the stdin websocket are connected before the threads run.
ConnectControl ==
  /\ pc = "control"
  /\ \/ /\ socket' = [socket EXCEPT !["control"] = "open"]
        /\ pc' = "stdin" /\ UNCHANGED runnerVars
     \/ Can("unreachable") /\ Finish("escaped") /\ UNCHANGED socket
  /\ UNCHANGED <<daemonVars, threadVars, queue, remaining, cancelled>>

ConnectStdin ==
  /\ pc = "stdin"
  /\ \/ /\ socket' = [socket EXCEPT !["stdin"] = "open"]
        /\ drain' = [s \in Streams |-> "connect"]
        /\ pc' = "get" /\ UNCHANGED runnerVars
     \/ /\ Can("unreachable") /\ Finish("escaped")
        /\ socket' = [socket EXCEPT !["control"] = "closed"] /\ UNCHANGED drain
  /\ UNCHANGED <<daemonVars, read, cut, queue, remaining, cancelled>>

\* Slip: the first end of a stream ends the loop.
Get_FirstEnd ==
  /\ pc = "get" /\ remaining > 0 /\ queue # <<>>
  /\ queue' = Tail(queue)
  /\ \/ /\ Head(queue) = EndOfStream
        /\ remaining' = 0 /\ UNCHANGED <<pc, runnerVars>>
     \/ /\ Head(queue) = Failure
        /\ pc' = "join" /\ outcome' = "failed" /\ UNCHANGED <<remaining, sent, exit>>
     \/ /\ Head(queue) \in Frames /\ ~cancelled
        /\ sent' = Append(sent, Head(queue)) /\ UNCHANGED <<pc, remaining, outcome, exit>>
     \/ /\ Head(queue) \in Frames /\ cancelled
        /\ pc' = "join" /\ outcome' = "cancelled" /\ UNCHANGED <<remaining, sent, exit>>
  /\ UNCHANGED <<daemonVars, socket, threadVars, cancelled>>

\* One turn of the loop.  A cancelled call is noticed when a frame cannot be
\* sent, and only then.
Get ==
  /\ pc = "get" /\ remaining > 0 /\ queue # <<>>
  /\ queue' = Tail(queue)
  /\ \/ /\ Head(queue) = EndOfStream
        /\ remaining' = remaining - 1 /\ UNCHANGED <<pc, runnerVars>>
     \/ /\ Head(queue) = Failure
        /\ pc' = "join" /\ outcome' = "failed" /\ UNCHANGED <<remaining, sent, exit>>
     \/ /\ Head(queue) \in Frames /\ ~cancelled
        /\ sent' = Append(sent, Head(queue)) /\ UNCHANGED <<pc, remaining, outcome, exit>>
     \/ /\ Head(queue) \in Frames /\ cancelled
        /\ pc' = "join" /\ outcome' = "cancelled" /\ UNCHANGED <<remaining, sent, exit>>
  /\ UNCHANGED <<daemonVars, socket, threadVars, cancelled>>

Drained ==
  /\ pc = "get" /\ remaining = 0
  /\ pc' = "join"
  /\ UNCHANGED <<daemonVars, socket, threadVars, queue, remaining, runnerVars, cancelled>>

\* The threads are joined, or left alone after a while; then control and
\* stdin are closed.
Join ==
  /\ pc = "join"
  /\ socket' = [socket EXCEPT !["control"] = "closed", !["stdin"] = "closed"]
  /\ pc' = IF outcome = "none" THEN "resolve" ELSE "done"
  /\ UNCHANGED <<daemonVars, threadVars, queue, remaining, runnerVars, cancelled>>

\* Yield the exit code.
Report(c) == pc' = "done" /\ outcome' = "exit" /\ exit' = c /\ UNCHANGED sent

\* _EXEC_STATUS_ERRORS: the exit code a failed operation's message stands for.
StatusErrors == [command_not_found |-> 127, command_not_executable |-> 126]

\* What the record says, where its exit code would be.
NoCode == {"running", "unfinished", "bare"} \cup DOMAIN StatusErrors

\* Slip: a record without an exit code counts as success at once.
Resolve_NoWait ==
  /\ pc = "resolve"
  /\ \/ ~forgotten /\ record = "return" /\ Report(code)
     \/ ~forgotten /\ record \in NoCode /\ Report(0)
     \/ (forgotten \/ Can("lost")) /\ Finish("failed")
  /\ UNCHANGED <<daemonVars, socket, threadVars, queue, remaining, cancelled>>

\* _exec_return_code: GET the record ...
Resolve ==
  /\ pc = "resolve"
  /\ \/ ~forgotten /\ record = "return" /\ Report(code)
     \/ ~forgotten /\ record \in NoCode /\ pc' = "wait" /\ UNCHANGED runnerVars
     \/ (forgotten \/ Can("lost")) /\ Finish("failed")
  /\ UNCHANGED <<daemonVars, socket, threadVars, queue, remaining, cancelled>>

\* ... and wait for the operation if the record has no exit code.  One that
\* has none then either counts as success, unless its metadata is null, which
\* ends in an AttributeError.
WaitForRecord ==
  /\ pc = "wait"
  /\ \/ ~forgotten /\ record = "return" /\ Report(code)
     \/ ~forgotten /\ record = "bare" /\ (Report(0) \/ Finish("escaped"))
     \/ ~forgotten /\ record \in DOMAIN StatusErrors /\ Report(StatusErrors[record])
     \/ (forgotten \/ record = "unfinished" \/ Can("lost")) /\ Finish("failed")
  /\ UNCHANGED <<daemonVars, socket, threadVars, queue, remaining, cancelled>>

-----------------------------------------------------------------------------
(* The drain threads.                                                      *)

\* Slip: the queue is a stack.
Put_Lifo(items) == queue' = items \o queue

Put(items) == queue' = queue \o items

\* The daemon turns a connection down, too, if another one has been closed
\* before the command started.
TurnedDown == command = "waiting" /\ \E s \in Sockets : socket[s] = "closed"

\* Slip: a thread that cannot connect only says that its stream is over.
Connect_Silent(s) ==
  /\ drain[s] = "connect"
  /\ \/ /\ socket' = [socket EXCEPT ![s] = "open"]
        /\ drain' = [drain EXCEPT ![s] = "read"] /\ UNCHANGED queue
     \/ /\ Can("unreachable") \/ TurnedDown
        /\ drain' = [drain EXCEPT ![s] = "over"]
        /\ Put(<<EndOfStream>>) /\ UNCHANGED socket
  /\ UNCHANGED <<daemonVars, read, cut, pc, remaining, runnerVars, cancelled>>

Connect(s) ==
  /\ drain[s] = "connect"
  /\ \/ /\ socket' = [socket EXCEPT ![s] = "open"]
        /\ drain' = [drain EXCEPT ![s] = "read"] /\ UNCHANGED queue
     \/ /\ Can("unreachable") \/ TurnedDown
        /\ drain' = [drain EXCEPT ![s] = "over"]
        /\ Put(<<Failure, EndOfStream>>) /\ UNCHANGED socket
  /\ UNCHANGED <<daemonVars, read, cut, pc, remaining, runnerVars, cancelled>>

Receive(s) ==
  /\ drain[s] = "read" /\ read[s] < made[s]
  /\ read' = [read EXCEPT ![s] = @ + 1]
  /\ Put(<<[kind |-> s, number |-> read[s] + 1]>>)
  /\ UNCHANGED <<daemonVars, socket, drain, cut, pc, remaining, runnerVars, cancelled>>

\* Slips: the thread ends without saying so; the empty frame that ends the
\* stream is passed on.
EndDrain_Silent(s) ==
  /\ drain[s] = "read"
  /\ command = "over" /\ read[s] = made[s]
  /\ socket' = [socket EXCEPT ![s] = "closed"]
  /\ drain' = [drain EXCEPT ![s] = "over"]
  /\ UNCHANGED <<queue, daemonVars, read, cut, pc, remaining, runnerVars, cancelled>>

EndDrain_EmptyFrame(s) ==
  /\ drain[s] = "read"
  /\ command = "over" /\ read[s] = made[s]
  /\ socket' = [socket EXCEPT ![s] = "closed"]
  /\ drain' = [drain EXCEPT ![s] = "over"]
  /\ Put(<<[kind |-> s, number |-> read[s] + 1], EndOfStream>>)
  /\ UNCHANGED <<daemonVars, read, cut, pc, remaining, runnerVars, cancelled>>

\* The stream ended with an empty frame.
EndDrain(s) ==
  /\ drain[s] = "read"
  /\ command = "over" /\ read[s] = made[s]
  /\ socket' = [socket EXCEPT ![s] = "closed"]
  /\ drain' = [drain EXCEPT ![s] = "over"]
  /\ Put(<<EndOfStream>>)
  /\ UNCHANGED <<daemonVars, read, cut, pc, remaining, runnerVars, cancelled>>

\* ConnectionClosed is passed over: the stream ends as if it had been read out.
Drop(s) ==
  /\ drain[s] = "read" /\ Can("dropped")
  /\ cut' = cut \cup {s}
  /\ socket' = [socket EXCEPT ![s] = "closed"]
  /\ drain' = [drain EXCEPT ![s] = "over"]
  /\ Put(<<EndOfStream>>)
  /\ UNCHANGED <<daemonVars, read, pc, remaining, runnerVars, cancelled>>

-----------------------------------------------------------------------------
(* The daemon, the command and the runner.                                 *)

\* The daemon starts the command when all four websockets have been connected.
StartCommand ==
  /\ command = "waiting" /\ \A s \in Sockets : socket[s] # "none"
  /\ command' = "running"
  /\ UNCHANGED <<machine, code, record, forgotten, made, socket, threadVars, queue, pc,
                 remaining, runnerVars, cancelled>>

Write(s) ==
  /\ command = "running" /\ made[s] < MaxFrames
  /\ made' = [made EXCEPT ![s] = @ + 1]
  /\ UNCHANGED <<machine, command, code, record, forgotten, socket, threadVars, queue, pc,
                 remaining, runnerVars, cancelled>>

\* The streams end with the command, before the operation's record does.
EndCommand ==
  /\ command = "running"
  /\ command' = "over" /\ code' \in Codes
  /\ UNCHANGED <<machine, record, forgotten, made, socket, threadVars, queue, pc, remaining,
                 runnerVars, cancelled>>

\* A virtual machine turns two exit codes into failures of the operation.
CloseRecord ==
  /\ command = "over" /\ record = "running"
  /\ \/ record' = IF machine /\ code = 127 THEN "command_not_found"
                  ELSE IF machine /\ code = 126 THEN "command_not_executable" ELSE "return"
     \/ Can("bare") /\ record' = "bare"
  /\ UNCHANGED <<machine, command, code, forgotten, made, socket, threadVars, queue, pc,
                 remaining, runnerVars, cancelled>>

\* The operation ends without the command's result.
AbortOperation ==
  /\ Can("unfinished") /\ command \in {"waiting", "running"}
  /\ command' = "over" /\ record' = "unfinished"
  /\ UNCHANGED <<machine, code, forgotten, made, socket, threadVars, queue, pc, remaining,
                 runnerVars, cancelled>>

ForgetRecord ==
  /\ Can("forgotten") /\ ~forgotten /\ record # "running"
  /\ forgotten' = TRUE
  /\ UNCHANGED <<machine, command, code, record, made, socket, threadVars, queue, pc,
                 remaining, runnerVars, cancelled>>

Cancel ==
  /\ ~cancelled /\ pc # "done"
  /\ cancelled' = TRUE
  /\ UNCHANGED <<daemonVars, socket, threadVars, queue, pc, remaining, runnerVars>>

-----------------------------------------------------------------------------
Handler == Lookup \/ Wrap \/ Post \/ ConnectControl \/ ConnectStdin \/ Get \/ Drained
           \/ Join \/ Resolve \/ WaitForRecord
Drain(s) == Connect(s) \/ Receive(s) \/ EndDrain(s)

Next ==
  \/ Handler
  \/ \E s \in Streams : Drain(s) \/ Drop(s) \/ Write(s)
  \/ StartCommand \/ EndCommand \/ CloseRecord \/ AbortOperation \/ ForgetRecord \/ Cancel

Spec == Init /\ [][Next]_vars

\* The plugin's threads run, and the daemon takes or turns down connections,
\* starts what it can start and closes the records of what is over.  A command
\* need not write or end.
FairSpec ==
  /\ Spec
  /\ WF_vars(Handler) /\ \A s \in Streams : WF_vars(Drain(s))
  /\ WF_vars(StartCommand) /\ WF_vars(CloseRecord)

-----------------------------------------------------------------------------
TypeOK ==
  /\ machine \in BOOLEAN
  /\ command \in {"none", "waiting", "running", "over"}
  /\ code \in Codes \cup {Nothing}
  /\ record \in {"return"} \cup NoCode /\ forgotten \in BOOLEAN
  /\ made \in [Streams -> 0..MaxFrames]
  /\ socket \in [Sockets -> {"none", "open", "closed"}]
  /\ drain \in [Streams -> {"off", "connect", "read", "over"}]
  /\ read \in [Streams -> 0..MaxFrames] /\ cut \subseteq Streams
  /\ queue \in Seq(Frames \cup {EndOfStream, Failure})
  /\ pc \in {"lookup", "wrap", "post", "control", "stdin", "get", "join", "resolve", "wait",
             "done"}
  /\ remaining \in 0..2
  /\ sent \in Seq(Frames)
  /\ outcome \in {"none", "exit", "failed", "rejected", "escaped", "cancelled"}
  /\ exit \in Codes \cup {0, Nothing}
  /\ cancelled \in BOOLEAN

Frame(s, n) == [kind |-> s, number |-> n]
Sent == {sent[i] : i \in 1..Len(sent)}

\* The runner sees each stream's frames in the order the command wrote them,
\* none twice and none left out, up to where the stream has got: two threads
\* and one queue do not mix a stream up.  (Of a frame's stream, exactly those
\* with a smaller number have been sent before it.)
OutputInOrder ==
  \A i \in 1..Len(sent) :
    /\ sent[i].number <= made[sent[i].kind]
    /\ \A n \in 1..MaxFrames :
         (\E j \in 1..(i - 1) : sent[j] = Frame(sent[i].kind, n)) <=> n < sent[i].number

\* An exit code is sent only after everything the command wrote, but for what
\* a broken websocket lost.
ExitComplete ==
  outcome = "exit" =>
    \A s \in Streams, n \in 1..MaxFrames :
      Frame(s, n) \in Sent <=> n <= (IF s \in cut THEN read[s] ELSE made[s])

\* The exit code the runner is sent is the command's, on containers and on
\* virtual machines, and whether or not the record was ready; only a record
\* that closed without one passes for success, whatever the command's was.
ExitFaithful ==
  outcome = "exit" => command = "over" /\ exit = IF record = "bare" THEN 0 ELSE code

\* No wake-up is lost.  The handler's waits have no time limit: at an empty
\* queue it waits for a drain thread that is still at work, and for a record
\* without a result only when the command is over and its record is about to be
\* written, or when both streams broke before the end of the command.
WaitsHaveCause ==
  /\ pc = "get" /\ remaining > 0 /\ queue = <<>> =>
       \E s \in Streams : drain[s] \in {"connect", "read"}
  /\ pc = "wait" /\ record = "running" => command = "over" \/ cut = Streams

Contract == INSTANCE ExecContract WITH
  command <- IF command = "none" THEN "waiting" ELSE command, code <- code,
  bare <- record = "bare", written <- made,
  shown <- [s \in Streams |-> {n \in 1..MaxFrames : Frame(s, n) \in Sent}],
  broken <- cut, told <- exit,
  call <- IF outcome = "none" THEN "open" ELSE IF outcome = "exit" THEN "exit" ELSE "failed"

\* What the runner is shown and told, and when, is what the contract allows;
\* the command starts or the call ends, and once the command is over the call
\* ends: no end of a stream and no failure to connect is missed, and nobody
\* waits for a thread, a record or an operation that is gone.
KeepsContract == Contract!FairSpec

\* A call the runner has cancelled ends.
CancelledCallEnds == cancelled ~> pc = "done"
=============================================================================
