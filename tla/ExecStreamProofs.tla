-------------------------- MODULE ExecStreamProofs --------------------------
(***************************************************************************)
(* Proofs about ExecStream, for any number of frames and set of codes:     *)
(* what the runner is sent is the command's output, in order, and its exit *)
(* code, last; so a call does nothing ExecContract does not allow.         *)
(***************************************************************************)
EXTENDS ExecStream, TLAPS

USE ExecStreamAssumption

\* What the operation's record says is what happened, and the handler reads
\* it only once.
Recorded ==
  /\ command \in {"none", "waiting", "running"} => record = "running"
  /\ command \in {"none", "waiting", "running", "over"}
  /\ record = "command_not_found" => code = 127
  /\ record = "command_not_executable" => code = 126
  /\ pc \in {"lookup", "wrap", "post"} => command = "none"
  /\ outcome = "exit" => pc = "done" /\ record # "running"

LEMMA StatusErrorsIs ==
  /\ DOMAIN StatusErrors = {"command_not_found", "command_not_executable"}
  /\ StatusErrors["command_not_found"] = 127
  /\ StatusErrors["command_not_executable"] = 126
  /\ NoCode = {"running", "unfinished", "bare", "command_not_found", "command_not_executable"}
  BY DEF StatusErrors, NoCode

LEMMA HandlerFaithful ==
  ASSUME Recorded, ExitFaithful, Handler
  PROVE  Recorded' /\ ExitFaithful'
<1> USE DEF Recorded, ExitFaithful, daemonVars, threadVars, runnerVars
<1>1. CASE Lookup \/ Wrap \/ Post \/ ConnectControl \/ ConnectStdin \/ Get \/ Drained \/ Join
  BY <1>1 DEF Lookup, Wrap, Post, ConnectControl, ConnectStdin, Get, Drained, Join, Finish
<1>2. CASE Resolve
  BY <1>2, StatusErrorsIs DEF Resolve, Report, Finish
<1>3. CASE WaitForRecord
  BY <1>3, StatusErrorsIs DEF WaitForRecord, Report, Finish
<1>. QED BY <1>1, <1>2, <1>3 DEF Handler

LEMMA OthersFaithful ==
  ASSUME Recorded, ExitFaithful, [Next]_vars, ~Handler
  PROVE  Recorded' /\ ExitFaithful'
<1> USE DEF Recorded, ExitFaithful, daemonVars, threadVars, runnerVars
<1>1. ASSUME NEW s \in Streams, Drain(s) \/ Drop(s) \/ Write(s)
      PROVE  Recorded' /\ ExitFaithful'
  BY <1>1 DEF Drain, Connect, Receive, EndDrain, Drop, Write
<1>2. CASE StartCommand \/ EndCommand \/ AbortOperation \/ ForgetRecord \/ Cancel
  BY <1>2 DEF StartCommand, EndCommand, AbortOperation, ForgetRecord, Cancel
<1>3. CASE CloseRecord
  BY <1>3 DEF CloseRecord
<1>4. CASE UNCHANGED vars
  BY <1>4 DEF vars
<1>. QED BY <1>1, <1>2, <1>3, <1>4 DEF Next

\* The runner is never told an exit code that is not the command's, unless the
\* daemon's record closed without one, which is told as success: neither by a
\* record read too early, nor by a virtual machine's failed operation, nor when
\* streams break, requests fail or records are forgotten.
THEOREM ExitsFaithful == Spec => []ExitFaithful
<1>1. Init => Recorded /\ ExitFaithful
  BY DEF Init, Recorded, ExitFaithful
<1>2. Recorded /\ ExitFaithful /\ [Next]_vars => Recorded' /\ ExitFaithful'
  BY HandlerFaithful, OthersFaithful
<1>. QED BY <1>1, <1>2, PTL DEF Spec

-----------------------------------------------------------------------------
(* The invariant.  While the call goes on, or after it has told the exit   *)
(* code, the queue holds what the drain threads read and the runner has    *)
(* not been sent, in an order that keeps each stream's; and one end for    *)
(* each thread that is over and that the handler has not counted.          *)

Item == Frames \cup {EndOfStream, Failure}

\* The items before position i.
Before(q, i) == {q[j] : j \in 1..(i - 1)}

\* One, two and three ends of streams are queued.
Ends(q) == {i \in 1..Len(q) : q[i] = EndOfStream}
One(q) == \E i \in Ends(q) : TRUE
Two(q) == \E i, j \in Ends(q) : i < j
Three(q) == \E i, j, k \in Ends(q) : i < j /\ j < k

SentOrdered ==
  \A i \in 1..Len(sent) :
    /\ sent[i].number <= read[sent[i].kind]
    /\ \A n \in 1..MaxFrames :
         Frame(sent[i].kind, n) \in Before(sent, i) <=> n < sent[i].number

\* q is a queue of what has been read and not been sent.
QueueOrdered(q) ==
  \A i \in 1..Len(q) : q[i] \in Frames =>
    \A n \in 1..MaxFrames :
      Frame(q[i].kind, n) \in Sent \cup Before(q, i) <=> n < q[i].number

NoneLost(q) ==
  \A s \in Streams, n \in 1..MaxFrames :
    Frame(s, n) \in Sent \cup Before(q, Len(q) + 1) <=> n <= read[s]

SomeOver == \E s \in Streams : drain[s] = "over"
AllOver == \A s \in Streams : drain[s] = "over"

EndsCounted ==
  /\ remaining = 2 => (One(queue) <=> SomeOver) /\ (Two(queue) <=> AllOver) /\ ~Three(queue)
  /\ remaining = 1 => SomeOver /\ (One(queue) <=> AllOver) /\ ~Two(queue)
  /\ remaining = 0 => AllOver /\ ~One(queue)

\* An end comes last, and right after a failure.
EndsLast ==
  /\ AllOver /\ queue # <<>> => queue[Len(queue)] = EndOfStream
  /\ \A i \in 1..Len(queue) : queue[i] = Failure =>
       i + 1 \in 1..Len(queue) /\ queue[i + 1] = EndOfStream

\* A thread is over because its stream is, or broke, or could not be had.
OverForAReason ==
  \A s \in Streams : drain[s] = "over" =>
    \/ s \in cut
    \/ (command = "over" /\ read[s] = made[s])
    \/ \E i \in 1..Len(queue) : queue[i] = Failure

Live == outcome \in {"none", "exit"}
Flow ==
  QueueOrdered(queue) /\ NoneLost(queue) /\ EndsCounted /\ EndsLast /\ OverForAReason

Staged ==
  /\ pc \in {"lookup", "wrap", "post", "control", "stdin"} =>
       \A s \in Streams : drain[s] = "off"
  /\ pc \in {"lookup", "wrap", "post", "control", "stdin", "get", "resolve", "wait"} =>
       outcome = "none"
  /\ pc \in {"resolve", "wait"} => remaining = 0
  /\ pc = "join" /\ outcome = "none" => remaining = 0
  /\ outcome = "exit" => remaining = 0 /\ pc = "done"
  /\ \A s \in Streams : read[s] <= made[s]
  /\ command = "over" /\ record # "unfinished" => code \in Codes
  /\ command # "over" => code = Nothing

Inv ==
  /\ TypeOK /\ Recorded /\ ExitFaithful /\ Staged
  /\ SentOrdered /\ (Live => Flow)

-----------------------------------------------------------------------------
(* Facts about frames and queues.                                          *)

LEMMA FrameFacts ==
  /\ EndOfStream \notin Frames /\ Failure \notin Frames /\ EndOfStream # Failure
  /\ \A s \in Streams, n \in 1..MaxFrames : Frame(s, n) \in Frames
  /\ \A f \in Frames : f = Frame(f.kind, f.number) /\ f.kind \in Streams /\ f.number \in 1..MaxFrames
  /\ \A s, t \in Streams, n, m \in 1..MaxFrames : Frame(s, n) = Frame(t, m) <=> s = t /\ n = m
  /\ \A s, n : Frame(s, n).kind = s /\ Frame(s, n).number = n
  /\ \A s, n : Frame(s, n) # Failure \/ s = "_error"
<1>1. EndOfStream \notin Frames /\ Failure \notin Frames
  BY DEF EndOfStream, Failure, Frames, Streams
<1>2. EndOfStream # Failure
  BY DEF EndOfStream, Failure
<1>3. \A s \in Streams, n \in 1..MaxFrames : Frame(s, n) \in Frames
  BY DEF Frame, Frames
<1>4. \A f \in Frames : f = Frame(f.kind, f.number) /\ f.kind \in Streams /\ f.number \in 1..MaxFrames
  BY DEF Frame, Frames
<1>5. \A s, n : Frame(s, n).kind = s /\ Frame(s, n).number = n
  BY DEF Frame
<1>6. \A s, n : Frame(s, n) # Failure \/ s = "_error"
  <2>1. Failure.kind = "_error"  BY DEF Failure
  <2>. QED BY <2>1, <1>5
<1>7. \A s, t \in Streams, n, m \in 1..MaxFrames : Frame(s, n) = Frame(t, m) <=> s = t /\ n = m
  BY <1>5
<1>. QED BY <1>1, <1>2, <1>3, <1>4, <1>5, <1>6, <1>7

LEMMA TailFacts ==
  ASSUME NEW S, NEW q \in Seq(S), q # <<>>
  PROVE  /\ Tail(q) \in Seq(S) /\ Head(q) \in S /\ Head(q) = q[1]
         /\ Len(q) \in Nat /\ Len(q) > 0 /\ Len(Tail(q)) = Len(q) - 1
         /\ \A i \in 1..(Len(q) - 1) : Tail(q)[i] = q[i + 1]
         /\ Tail(q) # <<>> => Tail(q)[Len(Tail(q))] = q[Len(q)]
  OBVIOUS

LEMMA AppendFacts ==
  ASSUME NEW S, NEW q \in Seq(S), NEW x \in S
  PROVE  /\ Append(q, x) \in Seq(S) /\ q \o <<x>> = Append(q, x)
         /\ Len(q) \in Nat /\ Len(Append(q, x)) = Len(q) + 1
         /\ Append(q, x)[Len(q) + 1] = x
         /\ \A i \in 1..Len(q) : Append(q, x)[i] = q[i]
  OBVIOUS

LEMMA BeforeAppend ==
  ASSUME NEW S, NEW q \in Seq(S), NEW x \in S
  PROVE  /\ \A i \in 1..(Len(q) + 1) : Before(Append(q, x), i) = Before(q, i)
         /\ Before(Append(q, x), Len(q) + 2) = Before(q, Len(q) + 1) \cup {x}
<1>1. \A i \in 1..(Len(q) + 1) : Before(Append(q, x), i) = Before(q, i)
  BY AppendFacts DEF Before
<1>2. ASSUME NEW y
      PROVE  y \in Before(Append(q, x), Len(q) + 2) <=> y \in Before(q, Len(q) + 1) \/ y = x
  <2>1. y \in Before(Append(q, x), Len(q) + 2) <=> \E j \in 1..(Len(q) + 1) : y = Append(q, x)[j]
    BY AppendFacts DEF Before
  <2>2. y \in Before(q, Len(q) + 1) <=> \E j \in 1..Len(q) : y = q[j]
    BY AppendFacts DEF Before
  <2>. QED BY <2>1, <2>2, AppendFacts
<1>. QED BY <1>1, <1>2

LEMMA BeforeTail ==
  ASSUME NEW S, NEW q \in Seq(S), q # <<>>,
         NEW i \in 1..Len(q)
  PROVE  Before(q, i + 1) = {Head(q)} \cup Before(Tail(q), i)
<1>1. ASSUME NEW y
      PROVE  y \in Before(q, i + 1) <=> y = Head(q) \/ y \in Before(Tail(q), i)
  <2>1. y \in Before(q, i + 1) <=> \E j \in 1..i : y = q[j]
    BY TailFacts DEF Before
  <2>2. y \in Before(Tail(q), i) <=> \E j \in 1..(i - 1) : y = Tail(q)[j]
    BY DEF Before
  <2>3. \A j \in 1..(i - 1) : Tail(q)[j] = q[j + 1]
    BY TailFacts
  <2>4. \A j \in 1..i : j = 1 \/ j - 1 \in 1..(i - 1)
    BY TailFacts
  <2>5. \A j \in 1..(i - 1) : j + 1 \in 1..i
    BY TailFacts
  <2>6. ASSUME NEW j \in 1..i, y = q[j]
        PROVE  y = Head(q) \/ \E k \in 1..(i - 1) : y = Tail(q)[k]
    <3>1. CASE j = 1
      BY <3>1, <2>6, TailFacts
    <3>2. CASE j # 1
      <4>1. j - 1 \in 1..(i - 1) /\ (j - 1) + 1 = j
        BY <3>2
      <4>. QED BY <4>1, <2>3, <2>6
    <3>. QED BY <3>1, <3>2
  <2>7. ASSUME y = Head(q)
        PROVE  \E j \in 1..i : y = q[j]
    BY <2>7, TailFacts
  <2>. QED BY <2>1, <2>2, <2>3, <2>5, <2>6, <2>7
<1>. QED BY <1>1

LEMMA EndsAppend ==
  ASSUME NEW q \in Seq(Item), NEW x \in Item
  PROVE  /\ One(Append(q, x)) <=> One(q) \/ x = EndOfStream
         /\ Two(Append(q, x)) <=> Two(q) \/ (One(q) /\ x = EndOfStream)
         /\ Three(Append(q, x)) <=> Three(q) \/ (Two(q) /\ x = EndOfStream)
<1> DEFINE a == Append(q, x)
<1>1. \A i \in Ends(a) : i \in Ends(q) \/ (i = Len(q) + 1 /\ x = EndOfStream)
  BY AppendFacts DEF Ends
<1>2. \A i \in Ends(q) : i \in Ends(a) /\ i \in Nat /\ i < Len(q) + 1
  BY AppendFacts DEF Ends
<1>3. x = EndOfStream => Len(q) + 1 \in Ends(a)
  BY AppendFacts DEF Ends
<1>4. Len(q) \in Nat /\ \A i \in Ends(a) : i \in Nat /\ i <= Len(q) + 1
  BY AppendFacts DEF Ends
<1> HIDE DEF a
<1>5. One(a) <=> One(q) \/ x = EndOfStream
  BY <1>1, <1>2, <1>3 DEF One
<1>6. Two(a) <=> Two(q) \/ (One(q) /\ x = EndOfStream)
  BY <1>1, <1>2, <1>3, <1>4 DEF One, Two
<1>7. Three(a) <=> Three(q) \/ (Two(q) /\ x = EndOfStream)
  BY <1>1, <1>2, <1>3, <1>4 DEF Two, Three
<1>. QED BY <1>5, <1>6, <1>7 DEF a

LEMMA EndsTail ==
  ASSUME NEW q \in Seq(Item), q # <<>>
  PROVE  /\ Head(q) = EndOfStream =>
              One(q) /\ (One(Tail(q)) <=> Two(q)) /\ (Two(Tail(q)) <=> Three(q))
         /\ Head(q) # EndOfStream =>
              /\ One(Tail(q)) <=> One(q)
              /\ Two(Tail(q)) <=> Two(q)
              /\ Three(Tail(q)) <=> Three(q)
         /\ ~Three(q) => ~Three(Tail(q))
<1> DEFINE t == Tail(q)
<1>1. \A i \in Ends(t) : i \in Nat /\ i > 0 /\ i + 1 \in Ends(q)
  BY TailFacts DEF Ends
<1>2. \A i \in Ends(q) : i \in Nat /\ i > 0 /\ (i = 1 \/ i - 1 \in Ends(t))
  <2> TAKE i \in Ends(q)
  <2>1. i \in 1..Len(q) /\ q[i] = EndOfStream /\ Len(q) \in Nat
    BY TailFacts DEF Ends
  <2>2. CASE i # 1
    <3>1. i - 1 \in 1..(Len(q) - 1) /\ (i - 1) + 1 = i
      BY <2>1, <2>2
    <3>2. t[i - 1] = EndOfStream /\ Len(t) = Len(q) - 1
      BY <3>1, <2>1, TailFacts
    <3>. QED BY <3>1, <3>2, <2>1 DEF Ends
  <2>. QED BY <2>1, <2>2
<1>3. 1 \in Ends(q) <=> Head(q) = EndOfStream
  BY TailFacts DEF Ends
<1> HIDE DEF t
<1>4. One(t) => One(q)  BY <1>1 DEF One
<1>5. Two(t) => Two(q)
  <2> SUFFICES ASSUME NEW i \in Ends(t), NEW j \in Ends(t), i < j  PROVE Two(q)
    BY DEF Two
  <2>. QED BY <1>1 DEF Two
<1>6. Three(t) => Three(q)
  <2> SUFFICES ASSUME NEW i \in Ends(t), NEW j \in Ends(t), NEW k \in Ends(t), i < j, j < k
               PROVE  Three(q)
    BY DEF Three
  <2>1. i + 1 \in Ends(q) /\ j + 1 \in Ends(q) /\ k + 1 \in Ends(q) /\ i + 1 < j + 1 /\ j + 1 < k + 1
    BY <1>1
  <2>. QED BY <2>1 DEF Three
<1>7. CASE Head(q) = EndOfStream
  <2>1. One(t) => Two(q)
    <3> SUFFICES ASSUME NEW i \in Ends(t)  PROVE Two(q)
      BY DEF One
    <3>1. 1 \in Ends(q) /\ i + 1 \in Ends(q) /\ 1 < i + 1
      BY <1>1, <1>3, <1>7
    <3>. QED BY <3>1 DEF Two
  <2>2. Two(q) => One(t)
    <3> SUFFICES ASSUME NEW i \in Ends(q), NEW j \in Ends(q), i < j  PROVE One(t)
      BY DEF Two
    <3>. QED BY <1>2 DEF One
  <2>3. Two(t) => Three(q)
    <3> SUFFICES ASSUME NEW i \in Ends(t), NEW j \in Ends(t), i < j  PROVE Three(q)
      BY DEF Two
    <3>1. 1 \in Ends(q) /\ i + 1 \in Ends(q) /\ j + 1 \in Ends(q) /\ 1 < i + 1 /\ i + 1 < j + 1
      BY <1>1, <1>3, <1>7
    <3>. QED BY <3>1 DEF Three
  <2>4. Three(q) => Two(t)
    <3> SUFFICES ASSUME NEW i \in Ends(q), NEW j \in Ends(q), NEW k \in Ends(q), i < j, j < k
                 PROVE  Two(t)
      BY DEF Three
    <3>1. j - 1 \in Ends(t) /\ k - 1 \in Ends(t) /\ j - 1 < k - 1
      BY <1>2
    <3>. QED BY <3>1 DEF Two
  <2>. QED BY <2>1, <2>2, <2>3, <2>4, <1>3, <1>6, <1>7 DEF t, One
<1>8. CASE Head(q) # EndOfStream
  <2>1. \A i \in Ends(q) : i \in Nat /\ i - 1 \in Ends(t)
    BY <1>2, <1>3, <1>8
  <2>2. One(q) => One(t)
    BY <2>1 DEF One
  <2>3. Two(q) => Two(t)
    <3> SUFFICES ASSUME NEW i \in Ends(q), NEW j \in Ends(q), i < j  PROVE Two(t)
      BY DEF Two
    <3>1. i - 1 \in Ends(t) /\ j - 1 \in Ends(t) /\ i - 1 < j - 1
      BY <2>1
    <3>. QED BY <3>1 DEF Two
  <2>4. Three(q) => Three(t)
    <3> SUFFICES ASSUME NEW i \in Ends(q), NEW j \in Ends(q), NEW k \in Ends(q), i < j, j < k
                 PROVE  Three(t)
      BY DEF Three
    <3>1. i - 1 \in Ends(t) /\ j - 1 \in Ends(t) /\ k - 1 \in Ends(t) /\ i - 1 < j - 1 /\ j - 1 < k - 1
      BY <2>1
    <3>. QED BY <3>1 DEF Three
  <2>. QED BY <2>2, <2>3, <2>4, <1>4, <1>5, <1>6, <1>8 DEF t
<1>. QED BY <1>7, <1>8 DEF t

-----------------------------------------------------------------------------
(* Type correctness, and the stages of the call.                           *)

LEMMA TypeInit == Init => TypeOK
<1> SUFFICES ASSUME Init  PROVE TypeOK
  OBVIOUS
<1>1. queue \in Seq(Frames \cup {EndOfStream, Failure}) /\ sent \in Seq(Frames)
  BY DEF Init
<1>2. /\ made \in [Streams -> 0..MaxFrames] /\ read \in [Streams -> 0..MaxFrames]
      /\ socket \in [Sockets -> {"none", "open", "closed"}]
      /\ drain \in [Streams -> {"off", "connect", "read", "over"}]
  BY DEF Init
<1>3. record \in {"return"} \cup NoCode /\ forgotten \in BOOLEAN
  BY DEF Init, NoCode
<1>4. remaining \in 0..2 /\ cut \subseteq Streams
  BY DEF Init
<1>5. /\ machine \in BOOLEAN /\ cancelled \in BOOLEAN
      /\ code \in Codes \cup {Nothing} /\ exit \in Codes \cup {0, Nothing}
  BY DEF Init
<1>6. /\ command \in {"none", "waiting", "running", "over"}
      /\ pc \in {"lookup", "wrap", "post", "control", "stdin", "get", "join", "resolve", "wait",
                 "done"}
      /\ outcome \in {"none", "exit", "failed", "rejected", "escaped", "cancelled"}
  BY DEF Init
<1>. QED BY <1>1, <1>2, <1>3, <1>4, <1>5, <1>6 DEF TypeOK

LEMMA TypeHandler ==
  ASSUME TypeOK, Recorded, Staged, Handler
  PROVE  TypeOK'
<1> USE DEF TypeOK, daemonVars, threadVars, runnerVars
<1>1. CASE Lookup \/ Wrap \/ Post
  BY <1>1 DEF Lookup, Wrap, Post, Finish
<1>2. CASE ConnectControl
  BY <1>2 DEF ConnectControl, Finish, Sockets
<1>3. CASE ConnectStdin
  BY <1>3 DEF ConnectStdin, Finish, Sockets
<1>4. CASE Get
  <2>1. queue' \in Seq(Frames \cup {EndOfStream, Failure})
    BY <1>4, TailFacts DEF Get
  <2>2. sent' \in Seq(Frames)
    <3>1. CASE UNCHANGED sent
      BY <3>1
    <3>2. CASE Head(queue) \in Frames /\ sent' = Append(sent, Head(queue))
      BY <3>2, AppendFacts
    <3>. QED BY <1>4, <3>1, <3>2 DEF Get
  <2>. QED BY <1>4, <2>1, <2>2 DEF Get
<1>5. CASE Drained \/ Join
  BY <1>5 DEF Drained, Join, Sockets
<1>6. CASE Resolve
  <2>1. record = "return" => code \in Codes
    BY <1>6 DEF Resolve, Staged, Recorded
  <2>2. 0 \in Nat  OBVIOUS
  <2>. QED BY <1>6, <2>1 DEF Resolve, Report, Finish
<1>7. CASE WaitForRecord
  <2>1. record = "return" \/ record \in DOMAIN StatusErrors => code \in Codes
    BY <1>7, StatusErrorsIs DEF Staged, Recorded
  <2>2. record \in DOMAIN StatusErrors => StatusErrors[record] = code
    BY <1>7, StatusErrorsIs DEF Recorded
  <2>. QED BY <1>7, <2>1, <2>2 DEF WaitForRecord, Report, Finish
<1>. QED BY <1>1, <1>2, <1>3, <1>4, <1>5, <1>6, <1>7 DEF Handler

LEMMA TypeOthers ==
  ASSUME TypeOK, [Next]_vars, ~Handler
  PROVE  TypeOK'
<1> USE DEF TypeOK, daemonVars, threadVars, runnerVars
<1>1. ASSUME NEW s \in Streams, Drain(s) \/ Drop(s)
      PROVE  TypeOK'
  <2>1. CASE Receive(s)
    <3>1. read[s] \in 0..MaxFrames /\ made[s] \in 0..MaxFrames /\ read[s] < made[s]
      BY <2>1 DEF Receive
    <3>2. read[s] + 1 \in 1..MaxFrames
      BY <3>1
    <3>3. [kind |-> s, number |-> read[s] + 1] \in Frames
      BY <3>2 DEF Frames
    <3>4. queue' \in Seq(Frames \cup {EndOfStream, Failure})
      BY <2>1, <3>3, AppendFacts DEF Receive, Put
    <3>5. read' \in [Streams -> 0..MaxFrames]
      BY <2>1, <3>2 DEF Receive
    <3>. QED BY <2>1, <3>4, <3>5 DEF Receive
  <2>2. CASE Connect(s) \/ EndDrain(s) \/ Drop(s)
    <3>1. queue' \in Seq(Frames \cup {EndOfStream, Failure})
      <4> DEFINE S == Frames \cup {EndOfStream, Failure}
      <4>1. EndOfStream \in S /\ Failure \in S /\ queue \in Seq(S)
        OBVIOUS
      <4> HIDE DEF S
      <4>2. queue \o <<EndOfStream>> \in Seq(S) /\ queue \o <<Failure, EndOfStream>> \in Seq(S)
        BY <4>1
      <4>3. queue' \in {queue, queue \o <<EndOfStream>>, queue \o <<Failure, EndOfStream>>}
        BY <2>2 DEF Connect, EndDrain, Drop, Put
      <4>. QED BY <4>1, <4>2, <4>3 DEF S
    <3>2. /\ socket' \in [Sockets -> {"none", "open", "closed"}]
          /\ drain' \in [Streams -> {"off", "connect", "read", "over"}]
          /\ cut' \subseteq Streams
      BY <2>2 DEF Connect, EndDrain, Drop, Sockets
    <3>3. UNCHANGED <<machine, command, code, record, forgotten, made, read, pc, remaining, sent, outcome,
                      exit, cancelled>>
      BY <2>2 DEF Connect, EndDrain, Drop
    <3>. QED BY <3>1, <3>2, <3>3
  <2>. QED BY <1>1, <2>1, <2>2 DEF Drain
<1>2. ASSUME NEW s \in Streams, Write(s)
      PROVE  TypeOK'
  BY <1>2 DEF Write
<1>3. CASE StartCommand
  BY <1>3 DEF StartCommand
<1>4. CASE EndCommand
  BY <1>4 DEF EndCommand
<1>5. CASE CloseRecord
  BY <1>5, StatusErrorsIs DEF CloseRecord
<1>6. CASE AbortOperation
  BY <1>6, StatusErrorsIs DEF AbortOperation
<1>7. CASE ForgetRecord
  BY <1>7 DEF ForgetRecord
<1>8. CASE Cancel
  BY <1>8 DEF Cancel
<1>9. CASE UNCHANGED vars
  BY <1>9 DEF vars
<1>. QED BY <1>1, <1>2, <1>3, <1>4, <1>5, <1>6, <1>7, <1>8, <1>9 DEF Next

LEMMA StagedHandler ==
  ASSUME TypeOK, Recorded, Staged, Handler
  PROVE  Staged'
<1> USE DEF TypeOK, Staged, Recorded, daemonVars, threadVars, runnerVars
<1>1. CASE Lookup \/ Wrap \/ Post
  BY <1>1 DEF Lookup, Wrap, Post, Finish
<1>2. CASE ConnectControl \/ ConnectStdin
  BY <1>2 DEF ConnectControl, ConnectStdin, Finish
<1>3. CASE Get
  BY <1>3 DEF Get
<1>4. CASE Drained \/ Join
  BY <1>4 DEF Drained, Join
<1>5. CASE Resolve \/ WaitForRecord
  BY <1>5 DEF Resolve, WaitForRecord, Report, Finish
<1>. QED BY <1>1, <1>2, <1>3, <1>4, <1>5 DEF Handler

LEMMA StagedOthers ==
  ASSUME TypeOK, Recorded, Staged, [Next]_vars, ~Handler
  PROVE  Staged'
<1> USE DEF TypeOK, Staged, Recorded, daemonVars, threadVars, runnerVars
<1>1. ASSUME NEW s \in Streams, Drain(s) \/ Drop(s)
      PROVE  Staged'
  <2>1. \A t \in Streams : read'[t] <= made[t]
    <3>1. CASE Receive(s)
      BY <3>1 DEF Receive
    <3>2. CASE Connect(s) \/ EndDrain(s) \/ Drop(s)
      <4>1. UNCHANGED read
        BY <3>2 DEF Connect, EndDrain, Drop
      <4>. QED BY <4>1
    <3>. QED BY <1>1, <3>1, <3>2 DEF Drain
  <2>2. drain[s] # "off" /\ \A t \in Streams : t # s => drain'[t] = drain[t]
    BY <1>1 DEF Drain, Connect, Receive, EndDrain, Drop
  <2>3. UNCHANGED <<command, code, record, made, pc, remaining, sent, outcome>>
    BY <1>1 DEF Drain, Connect, Receive, EndDrain, Drop
  <2>. QED BY <2>1, <2>2, <2>3
<1>2. ASSUME NEW s \in Streams, Write(s)
      PROVE  Staged'
  BY <1>2 DEF Write
<1>3. CASE StartCommand \/ EndCommand \/ AbortOperation \/ ForgetRecord \/ Cancel
  BY <1>3 DEF StartCommand, EndCommand, AbortOperation, ForgetRecord, Cancel
<1>4. CASE CloseRecord
  BY <1>4 DEF CloseRecord
<1>5. CASE UNCHANGED vars
  BY <1>5 DEF vars
<1>. QED BY <1>1, <1>2, <1>3, <1>4, <1>5 DEF Next

-----------------------------------------------------------------------------
(* The order of what is sent and of what is queued.                        *)

\* What is sent was queued, and the rest of the queue follows it.
LEMMA SentNext ==
  ASSUME TypeOK, Staged, SentOrdered, Live => QueueOrdered(queue) /\ NoneLost(queue),
         [Next]_vars
  PROVE  SentOrdered'
<1>1. CASE UNCHANGED sent
  <2>1. \A s \in Streams : read[s] \in Nat /\ read'[s] \in Nat /\ read[s] <= read'[s]
    <3>1. CASE UNCHANGED read
      BY <3>1 DEF TypeOK
    <3>2. ASSUME NEW s \in Streams, Receive(s)
          PROVE  \A t \in Streams : read[t] \in Nat /\ read'[t] \in Nat /\ read[t] <= read'[t]
      BY <3>2 DEF TypeOK, Receive
    <3>3. UNCHANGED read \/ \E s \in Streams : Receive(s)
      BY DEF Next, Handler, Lookup, Wrap, Post, ConnectControl, ConnectStdin, Get, Drained, Join, Resolve,
             WaitForRecord, Drain, Connect, EndDrain, Drop, Write, StartCommand, EndCommand,
             CloseRecord, AbortOperation, ForgetRecord, Cancel, vars, threadVars
    <3>. QED BY <3>1, <3>2, <3>3
  <2>2. \A i \in 1..Len(sent) : sent[i].kind \in Streams /\ sent[i].number \in Nat
    BY FrameFacts DEF TypeOK
  <2>3. ASSUME NEW i \in 1..Len(sent)
        PROVE  /\ sent[i].number <= read'[sent[i].kind]
               /\ \A n \in 1..MaxFrames :
                    Frame(sent[i].kind, n) \in Before(sent, i) <=> n < sent[i].number
    <3>1. /\ sent[i].number <= read[sent[i].kind]
          /\ \A n \in 1..MaxFrames :
               Frame(sent[i].kind, n) \in Before(sent, i) <=> n < sent[i].number
      BY DEF SentOrdered
    <3>2. sent[i].number <= read'[sent[i].kind]
      BY <2>1, <2>2, <3>1
    <3>. QED BY <3>1, <3>2
  <2>4. \A i : Before(sent, i)' = Before(sent, i)
    BY <1>1 DEF Before
  <2>. QED BY <1>1, <2>3, <2>4 DEF SentOrdered
<1>2. CASE sent' # sent
  <2>1. Get /\ Head(queue) \in Frames /\ sent' = Append(sent, Head(queue)) /\ outcome = "none"
    BY <1>2 DEF Next, Handler, Lookup, Wrap, Post, ConnectControl, ConnectStdin, Get, Drained, Join, Resolve,
             WaitForRecord, Drain, Connect, Receive, EndDrain, Drop, Write, StartCommand, EndCommand,
             CloseRecord, AbortOperation, ForgetRecord, Cancel, vars, runnerVars, Report, Finish,
             Staged
  <2>2. queue \in Seq(Item) /\ queue # <<>> /\ Live /\ read' = read
    BY <2>1 DEF Get, Live, TypeOK, Item, threadVars
  <2> DEFINE f == Head(queue)
  <2>3. f = queue[1] /\ 1 \in 1..Len(queue)
    BY <2>2, TailFacts
  <2>4. Before(queue, 1) = {}
    BY DEF Before
  <2>5. \A n \in 1..MaxFrames : Frame(f.kind, n) \in Sent <=> n < f.number
    BY <2>1, <2>2, <2>3, <2>4 DEF QueueOrdered
  <2>6. f \in Before(queue, Len(queue) + 1)
    BY <2>2, <2>3, TailFacts DEF Before
  <2>7. f.number <= read[f.kind]
    BY <2>1, <2>2, <2>6, FrameFacts DEF NoneLost
  <2>8. sent \in Seq(Frames) /\ f \in Frames
    BY <2>1 DEF TypeOK
  <2>9. Sent = Before(sent, Len(sent) + 1)
    BY <2>8, AppendFacts DEF Sent, Before
  <2> HIDE DEF f
  <2>10. sent' = Append(sent, f)
    BY <2>1 DEF f
  <2>11. ASSUME NEW i \in 1..(Len(sent) + 1)
         PROVE  /\ sent'[i].number <= read[sent'[i].kind]
                /\ \A n \in 1..MaxFrames :
                     Frame(sent'[i].kind, n) \in Before(sent', i) <=> n < sent'[i].number
    <3>1. Before(sent', i) = Before(sent, i)
      BY <2>8, <2>10, BeforeAppend
    <3>2. CASE i = Len(sent) + 1
      BY <3>1, <3>2, <2>5, <2>7, <2>8, <2>9, <2>10, AppendFacts
    <3>3. CASE i \in 1..Len(sent)
      BY <3>1, <3>3, <2>8, <2>10, AppendFacts DEF SentOrdered
    <3>. QED BY <3>2, <3>3, <2>8, AppendFacts
  <2>12. Len(sent') = Len(sent) + 1
    BY <2>8, <2>10, AppendFacts
  <2>. QED BY <2>2, <2>11, <2>12 DEF SentOrdered
<1>. QED BY <1>1, <1>2

-----------------------------------------------------------------------------
(* The queue, from one step to the next.                                   *)

\* An end or a failure at the back of the queue changes nothing about frames.
LEMMA MarkQueued ==
  ASSUME TypeOK, NEW q \in Seq(Item), NEW x \in {EndOfStream, Failure},
         QueueOrdered(q), NoneLost(q)
  PROVE  QueueOrdered(Append(q, x)) /\ NoneLost(Append(q, x))
<1> DEFINE a == Append(q, x)
<1>1. x \in Item /\ x \notin Frames
  BY FrameFacts DEF Item
<1>2. /\ Len(q) \in Nat /\ Len(a) = Len(q) + 1 /\ a[Len(q) + 1] = x
      /\ \A i \in 1..Len(q) : a[i] = q[i]
  BY <1>1, AppendFacts
<1>3. /\ \A i \in 1..(Len(q) + 1) : Before(a, i) = Before(q, i)
      /\ Before(a, Len(q) + 2) = Before(q, Len(q) + 1) \cup {x}
  BY <1>1, BeforeAppend
<1> HIDE DEF a
<1>4. QueueOrdered(a)
  BY <1>1, <1>2, <1>3 DEF QueueOrdered
<1>5. Before(a, Len(a) + 1) = Before(q, Len(q) + 1) \cup {x}
  BY <1>2, <1>3
<1>6. NoneLost(a)
  BY <1>1, <1>5, FrameFacts DEF NoneLost
<1>. QED BY <1>4, <1>6 DEF a

LEMMA FlowKept ==
  ASSUME TypeOK, Flow, UNCHANGED <<queue, sent, drain, read, cut, remaining>>,
         command = "over" => command' = "over" /\ made' = made
  PROVE  Flow'
<1>1. QueueOrdered(queue)' /\ NoneLost(queue)'
  BY DEF Flow, QueueOrdered, NoneLost, Sent, Before
<1>2. EndsCounted' /\ EndsLast'
  BY DEF Flow, EndsCounted, EndsLast, SomeOver, AllOver, One, Two, Three, Ends
<1>3. OverForAReason'
  BY DEF Flow, OverForAReason
<1>. QED BY <1>1, <1>2, <1>3 DEF Flow

\* The handler takes an item that is not the end of the call.
LEMMA FlowGet ==
  ASSUME TypeOK, Staged, Flow, Get, Live'
  PROVE  Flow'
<1> DEFINE h == Head(queue)
           t == Tail(queue)
<1>1. queue \in Seq(Item) /\ queue # <<>> /\ queue' = t /\ pc = "get"
      /\ UNCHANGED <<drain, read, cut, command, made>> /\ remaining \in 0..2
  BY DEF Get, TypeOK, Item, threadVars, daemonVars
<1>2. /\ t \in Seq(Item) /\ h \in Item /\ h = queue[1]
      /\ Len(queue) \in Nat /\ Len(queue) > 0 /\ Len(t) = Len(queue) - 1
      /\ \A i \in 1..(Len(queue) - 1) : t[i] = queue[i + 1]
      /\ t # <<>> => t[Len(t)] = queue[Len(queue)]
  BY <1>1, TailFacts
<1>3. \/ h = EndOfStream /\ remaining > 0 /\ remaining' = remaining - 1 /\ sent' = sent
      \/ h \in Frames /\ remaining' = remaining /\ sent' = Append(sent, h)
  BY DEF Get, Live, runnerVars
<1>4. \A i \in 1..Len(queue) : Before(queue, i + 1) = {h} \cup Before(t, i)
  BY <1>1, BeforeTail
<1> HIDE DEF h, t
<1>5. ASSUME NEW f \in Frames
      PROVE  f \in Sent' <=> f \in Sent \/ f = h
  <2>1. CASE h = EndOfStream
    BY <1>3, <2>1, FrameFacts DEF Sent
  <2>2. CASE h \in Frames
    <3>1. sent' = Append(sent, h) /\ sent \in Seq(Frames)
      BY <1>3, <2>2, FrameFacts DEF TypeOK
    <3>2. Before(sent', Len(sent) + 2) = Before(sent, Len(sent) + 1) \cup {h}
      BY <3>1, <2>2, BeforeAppend
    <3>3. Len(sent') = Len(sent) + 1 /\ Len(sent) \in Nat
      BY <3>1, <2>2, AppendFacts
    <3>4. Sent' = Before(sent', Len(sent) + 2) /\ Sent = Before(sent, Len(sent) + 1)
      BY <3>3 DEF Sent, Before
    <3>. QED BY <3>2, <3>4
  <2>. QED BY <1>3, <2>1, <2>2
<1>6. ASSUME NEW f \in Frames, NEW i \in 1..Len(queue)
      PROVE  f \in Sent' \cup Before(t, i) <=> f \in Sent \cup Before(queue, i + 1)
  BY <1>4, <1>5
<1>7. QueueOrdered(queue)'
  <2> SUFFICES ASSUME NEW i \in 1..Len(t), t[i] \in Frames, NEW n \in 1..MaxFrames
               PROVE  Frame(t[i].kind, n) \in Sent' \cup Before(t, i) <=> n < t[i].number
    BY <1>1 DEF QueueOrdered
  <2>1. i + 1 \in 1..Len(queue) /\ i \in 1..Len(queue) /\ t[i] = queue[i + 1]
    BY <1>2
  <2>2. Frame(t[i].kind, n) \in Frames
    BY FrameFacts
  <2>. QED BY <2>1, <2>2, <1>6 DEF Flow, QueueOrdered
<1>8. NoneLost(queue)'
  <2> SUFFICES ASSUME NEW s \in Streams, NEW n \in 1..MaxFrames
               PROVE  Frame(s, n) \in Sent' \cup Before(t, Len(t) + 1) <=> n <= read[s]
    BY <1>1 DEF NoneLost
  <2>1. Len(t) + 1 \in 1..Len(queue) /\ (Len(t) + 1) + 1 = Len(queue) + 1
    BY <1>2
  <2>2. Frame(s, n) \in Frames
    BY FrameFacts
  <2>. QED BY <2>1, <2>2, <1>6 DEF Flow, NoneLost
<1>9. EndsCounted'
  <2>1. /\ h = EndOfStream =>
              One(queue) /\ (One(t) <=> Two(queue)) /\ (Two(t) <=> Three(queue))
        /\ h # EndOfStream =>
              /\ One(t) <=> One(queue)
              /\ Two(t) <=> Two(queue)
              /\ Three(t) <=> Three(queue)
        /\ ~Three(queue) => ~Three(t)
    BY <1>1, EndsTail DEF h, t
  <2>2. (SomeOver' <=> SomeOver) /\ (AllOver' <=> AllOver)
    BY <1>1 DEF SomeOver, AllOver
  <2>3. /\ remaining' = 2 => (One(t) <=> SomeOver) /\ (Two(t) <=> AllOver) /\ ~Three(t)
        /\ remaining' = 1 => SomeOver /\ (One(t) <=> AllOver) /\ ~Two(t)
        /\ remaining' = 0 => AllOver /\ ~One(t)
    <3>1. CASE h = EndOfStream
      BY <1>1, <1>3, <2>1, <3>1, FrameFacts DEF Flow, EndsCounted
    <3>2. CASE h # EndOfStream
      BY <1>1, <1>3, <2>1, <3>2 DEF Flow, EndsCounted
    <3>. QED BY <3>1, <3>2
  <2>4. (One(queue)' <=> One(t)) /\ (Two(queue)' <=> Two(t)) /\ (Three(queue)' <=> Three(t))
    BY <1>1 DEF One, Two, Three, Ends
  <2>. QED BY <2>2, <2>3, <2>4 DEF EndsCounted
<1>10. h # Failure
  BY <1>3, FrameFacts
<1>11. EndsLast'
  <2>1. AllOver /\ t # <<>> => t[Len(t)] = EndOfStream
    BY <1>1, <1>2 DEF Flow, EndsLast
  <2>2. ASSUME NEW i \in 1..Len(t), t[i] = Failure
        PROVE  i + 1 \in 1..Len(t) /\ t[i + 1] = EndOfStream
    <3>1. i + 1 \in 1..Len(queue) /\ queue[i + 1] = Failure
      BY <1>2, <2>2
    <3>2. (i + 1) + 1 \in 1..Len(queue) /\ queue[(i + 1) + 1] = EndOfStream
      BY <3>1 DEF Flow, EndsLast
    <3>3. i + 1 \in 1..Len(t) /\ i + 1 \in 1..(Len(queue) - 1)
      BY <1>2, <3>2
    <3>. QED BY <1>2, <3>2, <3>3
  <2>3. AllOver' <=> AllOver
    BY <1>1 DEF AllOver
  <2>. QED BY <1>1, <2>1, <2>2, <2>3 DEF EndsLast
<1>12. OverForAReason'
  <2> SUFFICES ASSUME NEW s \in Streams, drain[s] = "over",
                      s \notin cut, ~(command = "over" /\ read[s] = made[s])
               PROVE  \E i \in 1..Len(t) : t[i] = Failure
    BY <1>1 DEF OverForAReason
  <2>1. PICK i \in 1..Len(queue) : queue[i] = Failure
    BY DEF Flow, OverForAReason
  <2>2. i # 1
    BY <1>2, <1>10, <2>1
  <2>3. i - 1 \in 1..Len(t) /\ i - 1 \in 1..(Len(queue) - 1) /\ (i - 1) + 1 = i
    BY <1>2, <2>2
  <2>. QED BY <1>2, <2>1, <2>3
<1>. QED BY <1>7, <1>8, <1>9, <1>11, <1>12 DEF Flow

\* A thread reads a frame.
LEMMA FlowReceive ==
  ASSUME TypeOK, Flow, NEW s \in Streams, Receive(s)
  PROVE  Flow'
<1> DEFINE f == Frame(s, read[s] + 1)
<1>1. /\ read[s] \in Nat /\ read[s] + 1 \in 1..MaxFrames /\ f \in Frames
      /\ read' = [read EXCEPT ![s] = read[s] + 1] /\ read \in [Streams -> 0..MaxFrames]
  <2>1. read[s] \in 0..MaxFrames /\ made[s] \in 0..MaxFrames /\ read[s] < made[s]
    BY DEF TypeOK, Receive
  <2>2. read[s] + 1 \in 1..MaxFrames
    BY <2>1
  <2>. QED BY <2>1, <2>2, FrameFacts DEF Receive, TypeOK
<1>2. /\ UNCHANGED <<sent, drain, cut, remaining, command, made>>
      /\ drain[s] = "read" /\ queue \in Seq(Item) /\ f \in Item
  BY <1>1 DEF Receive, daemonVars, runnerVars, TypeOK, Item
<1>3. queue' = Append(queue, f)
  <2>1. queue' = queue \o <<f>>
    BY DEF Receive, Put, Frame
  <2>. QED BY <1>2, <2>1, AppendFacts
<1>4. f.kind = s /\ f.number = read[s] + 1 /\ f # EndOfStream /\ f # Failure
  BY <1>1, FrameFacts
<1> HIDE DEF f
<1>5. /\ Len(queue) \in Nat /\ Len(queue') = Len(queue) + 1 /\ queue'[Len(queue) + 1] = f
      /\ \A i \in 1..Len(queue) : queue'[i] = queue[i]
  BY <1>2, <1>3, AppendFacts
<1>6. /\ \A i \in 1..(Len(queue) + 1) : Before(queue', i) = Before(queue, i)
      /\ Before(queue', Len(queue) + 2) = Before(queue, Len(queue) + 1) \cup {f}
  BY <1>2, <1>3, BeforeAppend
<1>7. Sent' = Sent
  BY <1>2 DEF Sent
<1>8. QueueOrdered(queue)'
  <2> SUFFICES ASSUME NEW i \in 1..(Len(queue) + 1), queue'[i] \in Frames, NEW n \in 1..MaxFrames
               PROVE  Frame(queue'[i].kind, n) \in Sent \cup Before(queue, i)
                        <=> n < queue'[i].number
    BY <1>5, <1>6, <1>7 DEF QueueOrdered
  <2>1. CASE i = Len(queue) + 1
    <3>1. Frame(s, n) \in Sent \cup Before(queue, i) <=> n <= read[s]
      BY <2>1 DEF Flow, NoneLost
    <3>. QED BY <1>1, <1>4, <1>5, <2>1, <3>1
  <2>2. CASE i \in 1..Len(queue)
    BY <1>5, <2>2 DEF Flow, QueueOrdered
  <2>. QED BY <1>5, <2>1, <2>2
<1>9. NoneLost(queue)'
  <2> SUFFICES ASSUME NEW t \in Streams, NEW n \in 1..MaxFrames
               PROVE  Frame(t, n) \in Sent \cup Before(queue, Len(queue) + 1) \cup {f}
                        <=> n <= read'[t]
    <3>1. Len(queue') + 1 = Len(queue) + 2
      BY <1>5
    <3>. QED BY <1>6, <1>7, <3>1 DEF NoneLost
  <2>1. Frame(t, n) = f <=> t = s /\ n = read[s] + 1
    BY <1>1, FrameFacts DEF f
  <2>2. Frame(t, n) \in Sent \cup Before(queue, Len(queue) + 1) <=> n <= read[t]
    BY DEF Flow, NoneLost
  <2>. QED BY <1>1, <2>1, <2>2
<1>10. EndsCounted'
  <2>1. (One(queue') <=> One(queue)) /\ (Two(queue') <=> Two(queue)) /\ (Three(queue') <=> Three(queue))
    BY <1>2, <1>3, <1>4, EndsAppend
  <2>2. (One(queue)' <=> One(queue')) /\ (Two(queue)' <=> Two(queue')) /\ (Three(queue)' <=> Three(queue'))
    BY DEF One, Two, Three, Ends
  <2>. QED BY <1>2, <2>1, <2>2 DEF Flow, EndsCounted, SomeOver, AllOver
<1>11. EndsLast'
  <2>1. ~AllOver'
    BY <1>2 DEF AllOver
  <2>2. ASSUME NEW i \in 1..(Len(queue) + 1), queue'[i] = Failure
        PROVE  i + 1 \in 1..(Len(queue) + 1) /\ queue'[i + 1] = EndOfStream
    <3>1. i \in 1..Len(queue) /\ queue[i] = Failure
      BY <1>4, <1>5, <2>2
    <3>2. i + 1 \in 1..Len(queue) /\ queue[i + 1] = EndOfStream
      BY <3>1 DEF Flow, EndsLast
    <3>. QED BY <1>5, <3>2
  <2>. QED BY <1>5, <2>1, <2>2 DEF EndsLast
<1>12. OverForAReason'
  <2> SUFFICES ASSUME NEW t \in Streams, drain[t] = "over", t \notin cut
               PROVE  \/ command = "over" /\ read'[t] = made[t]
                      \/ \E i \in 1..(Len(queue) + 1) : queue'[i] = Failure
    BY <1>2, <1>5 DEF OverForAReason
  <2>1. t # s /\ read'[t] = read[t]
    BY <1>1, <1>2
  <2>2. \/ command = "over" /\ read[t] = made[t]
        \/ \E i \in 1..Len(queue) : queue[i] = Failure
    BY DEF Flow, OverForAReason
  <2>. QED BY <1>5, <2>1, <2>2
<1>. QED BY <1>8, <1>9, <1>10, <1>11, <1>12 DEF Flow

\* A thread ends: with an end of its stream, after a failure if it could not
\* connect.
LEMMA FlowOver ==
  ASSUME TypeOK, Flow, NEW s \in Streams, NEW q,
         q = queue \/ q = Append(queue, Failure),
         queue' = Append(q, EndOfStream),
         drain[s] # "over", drain' = [drain EXCEPT ![s] = "over"],
         UNCHANGED <<sent, read, remaining, command, made>>, cut \subseteq cut',
         \/ s \in cut'
         \/ (command = "over" /\ read[s] = made[s])
         \/ q = Append(queue, Failure)
  PROVE  Flow'
<1>1. queue \in Seq(Item) /\ EndOfStream \in Item /\ Failure \in Item
  BY DEF TypeOK, Item
<1>2. q \in Seq(Item)
  BY <1>1, AppendFacts
<1>3. QueueOrdered(q) /\ NoneLost(q)
  BY <1>1, MarkQueued DEF Flow
<1>4. QueueOrdered(queue') /\ NoneLost(queue')
  BY <1>2, <1>3, MarkQueued
<1>5. QueueOrdered(queue)' /\ NoneLost(queue)'
  <2>1. Sent' = Sent /\ read' = read
    BY DEF Sent
  <2>2. QueueOrdered(queue)'
    BY <1>4, <2>1 DEF QueueOrdered, Before
  <2>3. NoneLost(queue)'
    BY <1>4, <2>1 DEF NoneLost, Before
  <2>. QED BY <2>2, <2>3
<1>6. /\ Len(queue) \in Nat /\ Len(q) \in Nat
      /\ Len(queue') = Len(q) + 1 /\ queue'[Len(q) + 1] = EndOfStream
      /\ \A i \in 1..Len(q) : queue'[i] = q[i]
      /\ Len(queue) <= Len(q) /\ \A i \in 1..Len(queue) : q[i] = queue[i]
      /\ q = queue \/ (Len(q) = Len(queue) + 1 /\ q[Len(q)] = Failure)
  <2>1. /\ Len(q) \in Nat /\ Len(queue') = Len(q) + 1 /\ queue'[Len(q) + 1] = EndOfStream
        /\ \A i \in 1..Len(q) : queue'[i] = q[i]
    BY <1>1, <1>2, AppendFacts
  <2>2. CASE q = queue
    BY <1>1, <2>1, <2>2
  <2>3. CASE q = Append(queue, Failure)
    BY <1>1, <2>1, <2>3, AppendFacts
  <2>. QED BY <2>1, <2>2, <2>3
<1>7. EndsCounted'
  <2>1. (One(q) <=> One(queue)) /\ (Two(q) <=> Two(queue)) /\ (Three(q) <=> Three(queue))
    <3>1. CASE q = queue
      BY <3>1
    <3>2. CASE q = Append(queue, Failure)
      BY <1>1, <3>2, EndsAppend, FrameFacts
    <3>. QED BY <3>1, <3>2
  <2>2. /\ One(queue')
        /\ Two(queue') <=> Two(queue) \/ One(queue)
        /\ Three(queue') <=> Three(queue) \/ Two(queue)
    BY <1>1, <1>2, <2>1, EndsAppend
  <2>3. (One(queue)' <=> One(queue')) /\ (Two(queue)' <=> Two(queue')) /\ (Three(queue)' <=> Three(queue'))
    BY DEF One, Two, Three, Ends
  <2>4. SomeOver' /\ ~AllOver /\ (AllOver' <=> SomeOver)
    BY DEF SomeOver, AllOver, Streams, TypeOK
  <2>5. Two(queue) => One(queue)
    BY DEF Two, One
  <2>. QED BY <2>2, <2>3, <2>4, <2>5 DEF Flow, EndsCounted
<1>8. EndsLast'
  <2>1. queue'[Len(queue')] = EndOfStream
    BY <1>6
  <2>2. ASSUME NEW i \in 1..Len(queue'), queue'[i] = Failure
        PROVE  i + 1 \in 1..Len(queue') /\ queue'[i + 1] = EndOfStream
    <3>1. i \in 1..Len(q) /\ q[i] = Failure
      BY <1>6, <2>2, FrameFacts
    <3>2. CASE i \in 1..Len(queue)
      <4>1. i + 1 \in 1..Len(queue) /\ queue[i + 1] = EndOfStream
        BY <1>6, <3>1, <3>2 DEF Flow, EndsLast
      <4>. QED BY <1>6, <4>1
    <3>3. CASE i = Len(q)
      BY <1>6, <3>3
    <3>. QED BY <1>6, <3>1, <3>2, <3>3
  <2>. QED BY <2>1, <2>2 DEF EndsLast
<1>9. OverForAReason'
  <2> SUFFICES ASSUME NEW t \in Streams, drain'[t] = "over"
               PROVE  \/ t \in cut'
                      \/ (command = "over" /\ read[t] = made[t])
                      \/ \E i \in 1..Len(queue') : queue'[i] = Failure
    BY DEF OverForAReason
  <2>1. CASE t = s
    BY <1>6, <2>1
  <2>2. CASE t # s
    <3>1. drain[t] = "over"
      BY <2>2 DEF TypeOK
    <3>2. \/ t \in cut
          \/ (command = "over" /\ read[t] = made[t])
          \/ \E i \in 1..Len(queue) : queue[i] = Failure
      BY <3>1 DEF Flow, OverForAReason
    <3>3. ASSUME NEW i \in 1..Len(queue), queue[i] = Failure
          PROVE  i \in 1..Len(queue') /\ queue'[i] = Failure
      BY <1>6, <3>3
    <3>. QED BY <3>2, <3>3
  <2>. QED BY <2>1, <2>2
<1>. QED BY <1>5, <1>7, <1>8, <1>9 DEF Flow

-----------------------------------------------------------------------------
(* The theorems.                                                           *)

LEMMA InvInit == Init => Inv
<1> SUFFICES ASSUME Init  PROVE Inv
  OBVIOUS
<1>1. TypeOK
  BY TypeInit
<1>2. Recorded /\ ExitFaithful /\ Staged
  BY <1>1 DEF Init, Recorded, ExitFaithful, Staged
<1>3. queue = <<>> /\ sent = <<>> /\ Len(queue) = 0 /\ Len(sent) = 0
  BY DEF Init
<1>4. SentOrdered /\ QueueOrdered(queue) /\ EndsLast
  BY <1>3 DEF SentOrdered, QueueOrdered, EndsLast
<1>5. NoneLost(queue)
  BY <1>3 DEF Init, NoneLost, Sent, Before
<1>6. EndsCounted /\ OverForAReason
  BY <1>3 DEF Init, EndsCounted, OverForAReason, One, Two, Three, Ends, SomeOver, AllOver, Streams
<1>. QED BY <1>1, <1>2, <1>4, <1>5, <1>6 DEF Inv, Flow

LEMMA FlowNext ==
  ASSUME Inv, [Next]_vars, Live'
  PROVE  Flow'
<1> USE DEF Inv, daemonVars, threadVars, runnerVars
<1>1. CASE Get
  <2>1. Live
    BY <1>1 DEF Get, Staged, Live
  <2>. QED BY <1>1, <2>1, FlowGet
<1>2. ASSUME NEW s \in Streams, Drain(s) \/ Drop(s)
      PROVE  Flow'
  <2>1. Live
    BY <1>2 DEF Drain, Connect, Receive, EndDrain, Drop, Live
  <2>2. CASE Receive(s)
    BY <2>1, <2>2, FlowReceive
  <2>3. queue \in Seq(Item) /\ EndOfStream \in Item /\ Failure \in Item
    BY DEF TypeOK, Item
  <2>4. queue \o <<EndOfStream>> = Append(queue, EndOfStream)
    BY <2>3, AppendFacts
  <2>5. CASE EndDrain(s) \/ Drop(s)
    <3>1. queue' = Append(queue, EndOfStream)
      BY <2>4, <2>5 DEF EndDrain, Drop, Put
    <3>2. /\ drain[s] = "read" /\ drain' = [drain EXCEPT ![s] = "over"]
          /\ UNCHANGED <<sent, read, remaining, command, made>> /\ cut \subseteq cut'
          /\ s \in cut' \/ (command = "over" /\ read[s] = made[s])
      BY <2>5 DEF EndDrain, Drop
    <3>3. drain[s] # "over"
      BY <3>2
    <3>. QED BY <2>1, <3>1, <3>2, <3>3, FlowOver
  <2>6. CASE Connect(s) /\ drain' = [drain EXCEPT ![s] = "over"]
               /\ Put(<<Failure, EndOfStream>>)
    <3>1. queue' = Append(Append(queue, Failure), EndOfStream)
      BY <2>3, <2>6 DEF Put
    <3>2. /\ drain[s] = "connect"
          /\ UNCHANGED <<sent, read, remaining, command, made>> /\ cut \subseteq cut'
      BY <2>6 DEF Connect
    <3>3. drain[s] # "over"
      BY <3>2
    <3>. QED BY <2>1, <2>6, <3>1, <3>2, <3>3, FlowOver
  <2>7. CASE Connect(s) /\ drain' = [drain EXCEPT ![s] = "read"] /\ UNCHANGED queue
    <3>1. /\ UNCHANGED <<sent, read, cut, remaining, command, made, queue>>
          /\ drain[s] = "connect"
      BY <2>7 DEF Connect
    <3>2. (AllOver' <=> AllOver) /\ (SomeOver' <=> SomeOver)
      BY <2>7, <3>1 DEF AllOver, SomeOver, TypeOK
    <3>3. QueueOrdered(queue)' /\ NoneLost(queue)'
      BY <2>1, <3>1 DEF Flow, QueueOrdered, NoneLost, Sent, Before
    <3>4. EndsCounted' /\ EndsLast'
      BY <2>1, <3>1, <3>2 DEF Flow, EndsCounted, EndsLast, One, Two, Three, Ends
    <3>5. OverForAReason'
      BY <2>1, <2>7, <3>1 DEF Flow, OverForAReason, TypeOK
    <3>. QED BY <3>3, <3>4, <3>5 DEF Flow
  <2>. QED BY <1>2, <2>2, <2>5, <2>6, <2>7 DEF Drain, Connect
<1>3. CASE ~Get /\ ~ \E s \in Streams : Drain(s) \/ Drop(s)
  <2>1. Live
    <3>1. CASE Handler
      BY <1>3, <3>1 DEF Handler, Lookup, Wrap, Post, ConnectControl, ConnectStdin, Drained, Join, Resolve,
               WaitForRecord, Report, Finish, Live, Staged
    <3>2. CASE ~Handler
      BY <1>3, <3>2 DEF Next, Write, StartCommand, EndCommand, CloseRecord, AbortOperation,
               ForgetRecord, Cancel, vars, Live
    <3>. QED BY <3>1, <3>2
  <2>2. CASE ConnectStdin /\ drain' = [s \in Streams |-> "connect"]
    <3>1. (AllOver' <=> AllOver) /\ (SomeOver' <=> SomeOver) /\ \A s \in Streams : drain'[s] # "over"
      BY <2>2 DEF ConnectStdin, AllOver, SomeOver, Staged, Streams
    <3>2. UNCHANGED <<sent, read, cut, remaining, command, made, queue>>
      BY <2>2 DEF ConnectStdin, Finish
    <3>3. QueueOrdered(queue)' /\ NoneLost(queue)'
      BY <2>1, <3>2 DEF Flow, QueueOrdered, NoneLost, Sent, Before
    <3>4. EndsCounted' /\ EndsLast'
      BY <2>1, <3>1, <3>2 DEF Flow, EndsCounted, EndsLast, One, Two, Three, Ends
    <3>5. OverForAReason'
      BY <3>1 DEF OverForAReason
    <3>. QED BY <3>3, <3>4, <3>5 DEF Flow
  <2>3. CASE ~(ConnectStdin /\ drain' = [s \in Streams |-> "connect"])
    <3>1. /\ UNCHANGED <<queue, sent, drain, read, cut, remaining>>
          /\ command = "over" => command' = "over" /\ made' = made
      <4>1. CASE Handler
        BY <1>3, <2>3, <4>1 DEF Handler, Lookup, Wrap, Post, ConnectControl, ConnectStdin, Drained, Join,
                 Resolve, WaitForRecord, Report, Finish, Recorded
      <4>2. CASE ~Handler
        BY <1>3, <4>2 DEF Next, Write, StartCommand, EndCommand, CloseRecord, AbortOperation,
                 ForgetRecord, Cancel, vars
      <4>. QED BY <4>1, <4>2
    <3>. QED BY <2>1, <3>1, FlowKept
  <2>. QED BY <2>2, <2>3
<1>. QED BY <1>1, <1>2, <1>3

LEMMA InvNext == Inv /\ [Next]_vars => Inv'
<1> SUFFICES ASSUME Inv, [Next]_vars  PROVE Inv'
  OBVIOUS
<1>1. TypeOK'
  BY TypeHandler, TypeOthers DEF Inv
<1>2. Recorded' /\ ExitFaithful'
  BY HandlerFaithful, OthersFaithful DEF Inv
<1>3. Staged'
  BY StagedHandler, StagedOthers DEF Inv
<1>4. SentOrdered'
  BY SentNext DEF Inv, Flow
<1>5. Live' => Flow'
  BY FlowNext
<1>. QED BY <1>1, <1>2, <1>3, <1>4, <1>5 DEF Inv

\* Every variable of a call keeps to its type, for any number of frames.
THEOREM ExecTypes == Spec => []TypeOK
<1>1. Inv => TypeOK
  BY DEF Inv
<1>. QED BY <1>1, InvInit, InvNext, PTL DEF Spec

LEMMA InvOrdered == Inv => OutputInOrder
<1> SUFFICES ASSUME Inv, NEW i \in 1..Len(sent)
             PROVE  /\ sent[i].number <= made[sent[i].kind]
                    /\ \A n \in 1..MaxFrames :
                         (\E j \in 1..(i - 1) : sent[j] = Frame(sent[i].kind, n))
                           <=> n < sent[i].number
  BY DEF OutputInOrder
<1>1. sent[i] \in Frames
  BY DEF Inv, TypeOK
<1>2. /\ sent[i].kind \in Streams /\ sent[i].number \in Nat
      /\ read[sent[i].kind] \in Nat /\ made[sent[i].kind] \in Nat
  BY <1>1, FrameFacts DEF Inv, TypeOK
<1>3. sent[i].number <= read[sent[i].kind] /\ read[sent[i].kind] <= made[sent[i].kind]
  BY <1>2 DEF Inv, SentOrdered, Staged
<1>4. \A n \in 1..MaxFrames :
        Frame(sent[i].kind, n) \in Before(sent, i) <=> n < sent[i].number
  BY DEF Inv, SentOrdered
<1>. QED BY <1>2, <1>3, <1>4 DEF Before

\* Two drain threads and a queue do not mix up, repeat or leave out frames of a
\* stream, whatever breaks and whoever cancels.
THEOREM OutputOrdered == Spec => []OutputInOrder
<1>. QED BY InvOrdered, InvInit, InvNext, PTL DEF Spec

\* When the loop is over the queue is empty and each thread has read its stream.
LEMMA DrainedQueue ==
  ASSUME Inv, Live, remaining = 0
  PROVE  /\ queue = <<>>
         /\ \A s \in Streams : s \in cut \/ (command = "over" /\ read[s] = made[s])
<1>1. AllOver /\ ~One(queue)
  BY DEF Inv, Flow, EndsCounted
<1>2. queue \in Seq(Item)
  BY DEF Inv, TypeOK, Item
<1>3. queue = <<>>
  <2> SUFFICES ASSUME queue # <<>>  PROVE FALSE
    OBVIOUS
  <2>1. queue[Len(queue)] = EndOfStream
    BY <1>1 DEF Inv, Flow, EndsLast
  <2>2. Len(queue) \in 1..Len(queue)
    BY <1>2, TailFacts
  <2>. QED BY <1>1, <2>1, <2>2 DEF One, Ends
<1>4. ~ \E i \in 1..Len(queue) : queue[i] = Failure
  BY <1>3
<1>. QED BY <1>1, <1>3, <1>4 DEF Inv, Flow, AllOver, OverForAReason

LEMMA SentWhenDrained ==
  ASSUME Inv, Live, remaining = 0, NEW s \in Streams, NEW n \in 1..MaxFrames
  PROVE  Frame(s, n) \in Sent <=> n <= (IF s \in cut THEN read[s] ELSE made[s])
<1>1. queue = <<>> /\ (s \in cut \/ read[s] = made[s])
  BY DrainedQueue
<1>2. Before(queue, Len(queue) + 1) = {}
  BY <1>1 DEF Before
<1>3. Frame(s, n) \in Sent <=> n <= read[s]
  BY <1>2 DEF Inv, Flow, NoneLost
<1>. QED BY <1>1, <1>3

LEMMA InvComplete == Inv => ExitComplete
<1> SUFFICES ASSUME Inv, outcome = "exit"
             PROVE  \A s \in Streams, n \in 1..MaxFrames :
                      Frame(s, n) \in Sent <=> n <= (IF s \in cut THEN read[s] ELSE made[s])
  BY DEF ExitComplete
<1>1. Live /\ remaining = 0
  BY DEF Inv, Staged, Live
<1>. QED BY <1>1, SentWhenDrained

\* No exit code overtakes output: when it is sent, both threads are over, the
\* queue is empty, and what was read is all the command wrote but for what a
\* broken websocket lost.
THEOREM ExitsComplete == Spec => []ExitComplete
<1>. QED BY InvComplete, InvInit, InvNext, PTL DEF Spec

-----------------------------------------------------------------------------
(* What the handler waits for.                                             *)

Started == pc = "get" => \A s \in Streams : drain[s] # "off"

LEMMA StartedNext == Inv /\ Started /\ [Next]_vars => Started'
<1> SUFFICES ASSUME TypeOK, Started, [Next]_vars PROVE Started'
  BY DEF Inv
<1> USE DEF Started, TypeOK, daemonVars, threadVars, runnerVars
<1>1. CASE Handler
  BY <1>1 DEF Handler, Lookup, Wrap, Post, ConnectControl, ConnectStdin, Get, Drained, Join, Resolve,
              WaitForRecord, Finish, Report
<1>2. ASSUME NEW s \in Streams, Drain(s) \/ Drop(s) \/ Write(s) PROVE Started'
  BY <1>2 DEF Drain, Connect, Receive, EndDrain, Drop, Write
<1>3. CASE StartCommand \/ EndCommand \/ CloseRecord \/ AbortOperation \/ ForgetRecord \/ Cancel
  BY <1>3 DEF StartCommand, EndCommand, CloseRecord, AbortOperation, ForgetRecord, Cancel
<1>4. CASE UNCHANGED vars
  BY <1>4 DEF vars
<1>. QED BY <1>1, <1>2, <1>3, <1>4 DEF Next

LEMMA InvCause == Inv /\ Started => WaitsHaveCause
<1> SUFFICES ASSUME Inv, Started PROVE WaitsHaveCause
  OBVIOUS
<1>1. ASSUME pc = "get", remaining > 0, queue = <<>>
      PROVE  \E s \in Streams : drain[s] \in {"connect", "read"}
  <2>1. Live /\ EndsCounted
    BY <1>1 DEF Inv, Staged, Live, Flow
  <2>2. ~One(queue)
    BY <1>1 DEF One, Ends
  <2>3. remaining \in {1, 2}
    BY <1>1 DEF Inv, TypeOK
  <2>4. ~AllOver
    BY <2>1, <2>2, <2>3 DEF EndsCounted, SomeOver, AllOver, Streams
  <2>. QED BY <1>1, <2>4 DEF AllOver, Started, Inv, TypeOK
<1>2. ASSUME pc = "wait", record = "running"
      PROVE  command = "over" \/ cut = Streams
  <2>1. Live /\ remaining = 0
    BY <1>2 DEF Inv, Staged, Live
  <2>. QED BY <2>1, DrainedQueue DEF Inv, TypeOK
<1>. QED BY <1>1, <1>2 DEF WaitsHaveCause

\* No end of a stream is ever missed: for any number of frames, and whatever
\* breaks in either thread, a handler that waits at the empty queue waits for a
\* thread that will still put something there.
THEOREM NoLostWakeup == Spec => []WaitsHaveCause
<1>1. Init => Started
  BY DEF Init, Started
<1>. QED BY <1>1, StartedNext, InvCause, InvInit, InvNext, PTL DEF Spec

-----------------------------------------------------------------------------
(* The contract.                                                           *)

Shown == [s \in Streams |-> {n \in 1..MaxFrames : Frame(s, n) \in Sent}]

\* The command as the contract has it, and whether its record keeps the code.
Seen == IF command = "none" THEN "waiting" ELSE command
Bare == record = "bare"

\* Something the contract does not see.
Unseen == UNCHANGED <<Seen, Bare, code, made, sent, cut, outcome, exit>>

\* The handler failing a call, at whatever point.
Failing ==
  /\ UNCHANGED <<Seen, Bare, code, made, sent, cut, exit>>
  /\ outcome = "none" /\ outcome' \in {"failed", "rejected", "escaped", "cancelled"}

LEMMA UnseenStutters ==
  ASSUME Unseen
  PROVE  UNCHANGED Contract!vars
  BY DEF Unseen, Seen, Bare, Contract!vars, Sent

LEMMA FailingFails ==
  ASSUME Failing
  PROVE  Contract!Fail
  BY DEF Failing, Seen, Bare, Contract!Fail, Sent

LEMMA ShowStep ==
  ASSUME Inv, Get, sent' # sent
  PROVE  Contract!Show
<1>1. /\ Head(queue) \in Frames /\ sent' = Append(sent, Head(queue)) /\ queue # <<>>
      /\ outcome = "none" /\ outcome' = "none"
      /\ UNCHANGED <<command, record, code, made, cut, exit>>
  BY DEF Get, Inv, Staged, daemonVars, threadVars, runnerVars
<1>2. queue \in Seq(Item) /\ sent \in Seq(Frames) /\ Live
  BY <1>1 DEF Inv, TypeOK, Item, Live
<1> DEFINE f == Head(queue)
           s == f.kind
           n == f.number
<1>3. f \in Frames /\ f = Frame(s, n) /\ s \in Streams /\ n \in 1..MaxFrames
  BY <1>1, FrameFacts
<1>4. f = queue[1] /\ 1 \in 1..Len(queue) /\ Before(queue, 1) = {}
  BY <1>1, <1>2, TailFacts DEF Before
<1>5. \A m \in 1..MaxFrames : Frame(s, m) \in Sent <=> m < n
  BY <1>1, <1>2, <1>4 DEF Inv, Flow, QueueOrdered
<1>6. f \in Before(queue, Len(queue) + 1)
  BY <1>2, <1>4, TailFacts DEF Before
<1>7. n <= read[s] /\ read[s] <= made[s] /\ read[s] \in Nat /\ made[s] \in Nat
  BY <1>2, <1>3, <1>6 DEF Inv, Flow, NoneLost, Staged, TypeOK
<1>8. n \in 1..made[s]
  BY <1>3, <1>7
<1>9. \A g \in Frames : g \in Sent' <=> g \in Sent \/ g = f
  <2>1. Before(sent', Len(sent) + 2) = Before(sent, Len(sent) + 1) \cup {f}
    BY <1>1, <1>2, <1>3, BeforeAppend
  <2>2. Len(sent') = Len(sent) + 1 /\ Len(sent) \in Nat
    BY <1>1, <1>2, <1>3, AppendFacts
  <2>3. Sent' = Before(sent', Len(sent) + 2) /\ Sent = Before(sent, Len(sent) + 1)
    BY <2>2 DEF Sent, Before
  <2>. QED BY <2>1, <2>3
<1> HIDE DEF f
<1>10. Shown[s] = 1..(n - 1)
  <2>1. Shown[s] = {m \in 1..MaxFrames : Frame(s, m) \in Sent}
    BY <1>3 DEF Shown
  <2>2. Shown[s] = {m \in 1..MaxFrames : m < n}
    BY <1>5, <2>1
  <2>. QED BY <1>3, <2>2
<1>11. Shown' = [Shown EXCEPT ![s] = 1..n]
  <2>1. ASSUME NEW t \in Streams
        PROVE  Shown'[t] = IF t = s THEN 1..n ELSE Shown[t]
    <3>1. \A m \in 1..MaxFrames : Frame(t, m) \in Sent' <=> Frame(t, m) \in Sent \/ (t = s /\ m = n)
      BY <1>3, <1>9, FrameFacts
    <3>2. Shown'[t] = {m \in 1..MaxFrames : Frame(t, m) \in Sent'}
      BY DEF Shown
    <3>3. CASE t = s
      <4>1. Shown'[t] = {m \in 1..MaxFrames : m <= n}
        BY <1>3, <1>5, <3>1, <3>2, <3>3
      <4>. QED BY <1>3, <3>3, <4>1
    <3>4. CASE t # s
      BY <3>1, <3>2, <3>4 DEF Shown
    <3>. QED BY <3>3, <3>4
  <2>2. /\ Shown' = [t \in Streams |-> Shown'[t]]
        /\ Shown = [t \in Streams |-> Shown[t]]
    BY DEF Shown
  <2>. QED BY <1>3, <2>1, <2>2
<1> HIDE DEF s, n
<1>. QED BY <1>1, <1>3, <1>8, <1>10, <1>11 DEF Contract!Show, Shown

LEMMA TellStep ==
  ASSUME Inv, NEW c, Report(c), pc \in {"resolve", "wait"}, c = IF Bare THEN 0 ELSE code,
         code \in Codes, command = "over", UNCHANGED <<daemonVars, threadVars>>
  PROVE  Contract!Tell
<1>1. remaining = 0 /\ outcome = "none" /\ Live
  BY DEF Inv, Staged, Live
<1>2. /\ outcome' = "exit" /\ exit' = IF Bare THEN 0 ELSE code
      /\ UNCHANGED <<command, record, code, made, cut, sent>>
  BY DEF Report, daemonVars, threadVars
<1>3. ASSUME NEW s \in Streams \ cut
      PROVE  Shown[s] = 1..made[s]
  <2>1. \A n \in 1..MaxFrames : Frame(s, n) \in Sent <=> n <= made[s]
    BY <1>1, SentWhenDrained
  <2>2. Shown[s] = {n \in 1..MaxFrames : n <= made[s]}
    BY <2>1 DEF Shown
  <2>3. made[s] \in 0..MaxFrames
    BY DEF Inv, TypeOK
  <2>. QED BY <2>2, <2>3
<1>4. code # Nothing
  OBVIOUS
<1>. QED BY <1>1, <1>2, <1>3, <1>4 DEF Contract!Tell, Shown, Sent, Bare

LEMMA HandlerKeepsContract ==
  ASSUME Inv, Handler
  PROVE  [Contract!Next]_(Contract!vars)
<1> USE DEF daemonVars, threadVars, runnerVars
<1>1. CASE Lookup \/ Wrap \/ Post
  <2>1. Unseen \/ Failing
    BY <1>1 DEF Inv, Recorded, Staged, Lookup, Wrap, Post, Finish, Unseen, Failing, Seen, Bare
  <2>. QED BY <2>1, UnseenStutters, FailingFails DEF Contract!Next
<1>2. CASE ConnectControl \/ ConnectStdin
  <2>1. Unseen \/ Failing
    BY <1>2 DEF Inv, Staged, ConnectControl, ConnectStdin, Finish, Unseen, Failing, Seen, Bare
  <2>. QED BY <2>1, UnseenStutters, FailingFails DEF Contract!Next
<1>3. CASE Get
  <2>1. CASE sent' # sent
    BY <1>3, <2>1, ShowStep DEF Contract!Next
  <2>2. CASE sent' = sent
    <3>1. Unseen \/ Failing
      BY <1>3, <2>2 DEF Inv, Staged, Get, Unseen, Failing, Seen, Bare
    <3>. QED BY <3>1, UnseenStutters, FailingFails DEF Contract!Next
  <2>. QED BY <2>1, <2>2
<1>4. CASE Drained \/ Join
  <2>1. Unseen
    BY <1>4 DEF Drained, Join, Unseen, Seen, Bare
  <2>. QED BY <2>1, UnseenStutters
<1>5. CASE Resolve \/ WaitForRecord
  <2>1. \/ Report(code) /\ record = "return"
        \/ Report(0) /\ record = "bare"
        \/ Report(StatusErrors[record]) /\ record \in DOMAIN StatusErrors
        \/ Unseen \/ Failing
    BY <1>5 DEF Inv, Staged, Resolve, WaitForRecord, Finish, Unseen, Failing, Seen, Bare
  <2>2. pc \in {"resolve", "wait"} /\ UNCHANGED <<daemonVars, threadVars>>
    BY <1>5 DEF Resolve, WaitForRecord
  <2>3. ASSUME record \in {"return", "bare"} \cup DOMAIN StatusErrors
        PROVE  command = "over" /\ code \in Codes
    BY <2>3, StatusErrorsIs DEF Inv, Recorded, Staged, TypeOK
  <2>4. record \in DOMAIN StatusErrors => StatusErrors[record] = code /\ ~Bare
    BY StatusErrorsIs DEF Inv, Recorded, Bare
  <2>5. CASE Report(code) /\ record = "return"
    BY <2>2, <2>3, <2>5, TellStep DEF Contract!Next, Bare
  <2>6. CASE Report(0) /\ record = "bare"
    BY <2>2, <2>3, <2>6, TellStep DEF Contract!Next, Bare
  <2>7. CASE Report(StatusErrors[record]) /\ record \in DOMAIN StatusErrors
    <3>1. Report(code)
      BY <2>4, <2>7
    <3>. QED BY <2>2, <2>3, <2>4, <2>7, <3>1, TellStep DEF Contract!Next
  <2>. QED BY <2>1, <2>5, <2>6, <2>7, UnseenStutters, FailingFails DEF Contract!Next
<1>. QED BY <1>1, <1>2, <1>3, <1>4, <1>5 DEF Handler

LEMMA OthersKeepContract ==
  ASSUME Inv, [Next]_vars, ~Handler
  PROVE  [Contract!Next]_(Contract!vars)
<1> USE DEF daemonVars, threadVars, runnerVars
<1>1. ASSUME NEW s \in Streams, Drain(s)
      PROVE  UNCHANGED Contract!vars
  <2>1. Unseen
    BY <1>1 DEF Drain, Connect, Receive, EndDrain, Unseen, Seen, Bare
  <2>. QED BY <2>1, UnseenStutters
<1>2. ASSUME NEW s \in Streams, Drop(s)
      PROVE  Contract!Break
  BY <1>2 DEF Drop, Contract!Break, Sent
<1>3. ASSUME NEW s \in Streams, Write(s)
      PROVE  Contract!Write
  BY <1>3 DEF Write, Contract!Write, Sent
<1>4. CASE StartCommand
  BY <1>4 DEF StartCommand, Contract!Next, Contract!Begin, Sent
<1>5. CASE EndCommand \/ AbortOperation
  <2>1. /\ Seen # "over" /\ command' = "over" /\ Bare' = Bare
        /\ code' \in IF Seen = "running" THEN Codes \cup {Nothing} ELSE {Nothing}
        /\ UNCHANGED <<made, sent, cut, outcome, exit>>
    BY <1>5 DEF Inv, TypeOK, Recorded, Staged, EndCommand, AbortOperation, Seen, Bare
  <2>. QED BY <2>1 DEF Contract!Next, Contract!End, Sent, Seen, Bare
<1>6. CASE CloseRecord
  <2>1. CASE record' = "bare"
    <3>1. /\ command = "over" /\ record = "running" /\ outcome # "exit"
          /\ UNCHANGED <<command, code, made, sent, cut, outcome, exit>>
      BY <1>6 DEF CloseRecord, Inv, Recorded
    <3>. QED BY <2>1, <3>1 DEF Contract!Next, Contract!Omit, Sent
  <2>2. CASE record' # "bare"
    <3>1. Unseen
      BY <1>6, <2>2 DEF CloseRecord, Unseen, Seen, Bare
    <3>. QED BY <3>1, UnseenStutters
  <2>. QED BY <2>1, <2>2
<1>7. CASE ForgetRecord \/ Cancel \/ UNCHANGED vars
  <2>1. Unseen
    BY <1>7 DEF ForgetRecord, Cancel, vars, Unseen, Seen, Bare
  <2>. QED BY <2>1, UnseenStutters
<1>. QED BY <1>1, <1>2, <1>3, <1>4, <1>5, <1>6, <1>7 DEF Next, Contract!Next

\* What the runner sees of a call is what the contract allows: the command's
\* frames in order, and its exit code after all of them, or success in place of a
\* code that the record does not have.
THEOREM CallsKeepContract == Spec => Contract!Spec
<1>1. Init => Contract!Init
  BY DEF Init, Contract!Init, Sent
<1>2. Inv /\ [Next]_vars => [Contract!Next]_(Contract!vars)
  BY HandlerKeepsContract, OthersKeepContract
<1>. QED BY <1>1, <1>2, InvInit, InvNext, PTL DEF Spec, Contract!Spec

=============================================================================
