# Verification of forgejo-lxd-runner

forgejo-lxd-runner is a gRPC plugin of the Forgejo runner. It gives every job an
instance (a container or a virtual machine) and a bridge network on an LXD or
Incus host, runs the job's steps in it, and removes it. The plugin keeps one
dictionary, `_envs`; everything else is state of the daemon, reached by REST
calls that may fail, take long, or be overtaken by somebody else's calls. That
is where the errors are that tests hardly reach, and what this project models.

Paths below are relative to `src/src/forgejo_lxd_runner/` of the repository.

## The system

| Part | State | Operations | Talks to |
| --- | --- | --- | --- |
| `BackendPluginService` (`server.py`) | `_envs` under `_lock`: handle -> instance, executor, services, network, project | `Create`, `Start`, `Exec`, `CopyIn`, `CopyOut`, `Remove`, `Capabilities` | the runner (gRPC), the client |
| `BackendClient` (`client.py`) | a cached `GET /1.0`, connections | `call`, `operation_wait`, `run_operation`, `launch_instance`, `remove_instance`, networks, `exec_stream`, files | the daemon (REST, websockets) |
| Executors, `ServiceSet` (`executor.py`) | the names of what they made | `resolve` and its waits, job container, services | the instance, through execs |
| `HealthService` (`health.py`) | a thread, two published statuses | probe, publish, stop | the daemon, health clients |
| `Metrics` (`metrics.py`) | a counter, two gauges | one count per call | Prometheus |
| `serve` (`__main__.py`) | a pool of worker threads | start, shutdown | all of them |
| the daemon (not in the repository) | instances, networks, operations | answers requests; runs operations that outlive them | |
| the runner (not in the repository) | how far each job has come | calls; gives up; calls `Remove` | |

What is hard:

* **Partial failure.** `Create` makes a network, then an instance, then things
  inside it, then a record. Every step may fail, in ways the code distinguishes
  by exception type, and what was made so far has to go, in an order the daemon
  accepts.
* **Operations outlive requests.** A create operation goes on when `Create` has
  lost sight of it or has timed out.
* **Interleaving.** Handlers run in threads; the lock covers only the dictionary.
  Operators use the same daemon.
* **Waiting.** Every wait is a poll loop with its own deadline, window, pad and
  read budget, or a queue fed by two threads.
* **Restart.** `_envs` is not persistent.

What makes each part correct:

* *Environments*: a handler has an environment to itself; jobs do not share
  networks; what is on record is usable; what failed or was removed is gone;
  everything on the host has an owner in the plugin; calls are answered.
* *Operation waits*: the verdict is right, the deadline is kept, polls are not a
  storm, the wait ends.
* *Exec*: output in order and complete before the exit code, the exit code the
  command's wherever the daemon kept it, the command starts or the call fails,
  the call ends with the command.
* *Readiness*: no job starts too early, no runtime is missed, no loop gives up
  early or late.
* *Services*: a host name leads to the service of that name and no other; a
  teardown leaves nothing in the instance; nothing half made is offered.
* *Server*: what `Check` answers is fresh; calls are counted; a call starves only
  behind commands; the way down keeps its time and comes to its end.
* *Copies*: the archive can be unpacked; what stayed as it was comes through.

`PROJECT.json` lists the hazards line by line, with the properties for them.

## Modules

| Module | Models | Proofs |
| --- | --- | --- |
| `JobEnvironment` | the abstract promise: build, offer, end, be over with nothing left | |
| `Environments` | `Create`, `Start`, `Remove`, `_discard`, against daemon, operator, runner, restart | `EnvironmentsProofs`, `ReclaimProofs` |
| `OperationWait` | `operation_wait` under `_effective_create_timeout`, with a clock | `OperationWaitProofs` |
| `ExecContract` | the abstract promise of an `Exec`: begin, write, end, show, tell, fail; a stream may break, an exit code go unrecorded | |
| `ExecStream` | `Exec` from its lookup on, `wrap`, `exec_stream`, `_exec_return_code`, the drain threads | `ExecStreamProofs` |
| `Readiness` | `resolve`: agent, system and runtime waits against a booting instance | `ReadinessProofs` |
| `Services` | the containers in one instance: `ServiceSet`, `ContainerExecutor`, `_start_services`, and their part of `Create`, `Start`, `Remove` | `ServicesProofs` |
| `Health` | the poller: probe, two published statuses, a gauge, a nap | with `Server` |
| `Server` | `serve`: start-up, the worker pool and its queue, the counter of calls, the shutdown; it extends `Health` | `ServerProofs` |
| `Copy` | `CopyOut` while the job works on, then `CopyIn` of the archive | `CopyProofs` |

`Environments` and `Services` both implement `JobEnvironment`, at two depths:
the first counts an environment's instance and network, the second what is in
the instance. `ExecStream` implements `ExecContract`. `Server` is the
composition of the poller with what starts and stops it.

A module `MC...` instantiates each of them for TLC. Each module has a section of *slips*: operators named after an
action with a suffix, each a mistake that a change of the code could make. They
are not part of the specification; replacing the action by its slip must break
the property `PROJECT.json` pairs it with.

### Environments

One action is one REST call of a handler with the daemon's answer; what the
handler does up to the next call belongs to it. `pc[t]` names the next step of
worker thread `t`, `ctx[t]` the call it serves and the code it will abort with.
The code uses one teardown path twice, and so does the model: `_discard` (from
`Create`) and `Remove` both run `Probe`, `Stop`, `Delete`, `DeleteWait`,
`Unplug`; they differ in `RemovalFailed`.

| Action | Code |
| --- | --- |
| `RejectCreate`, `CallCreate`, `CreateNetwork` | `server.py` 483-567 |
| `RejectEphemeral`, `Launch`, `LaunchWait` | 569-638 |
| `Setup`, `Describe`, `Record` | 640-719 |
| `CallStart`, `StartProbe`, `StartContainer` | 721-759 |
| `CallRemove`, `Cleanup` | 960-991 |
| `Probe`, `Stop`, `Delete`, `DeleteWait` | `client.py` 593-614 |
| `Unplug` | `server.py` 458-470 |
| `Restart` | `server.py` 291: a new process has an empty `_envs` |

The daemon's create operation is three actions (`OpVisible`, `OpSucceeds`,
`OpFails`): the instance's record appears, with its hold on the network; it
boots; or the operation fails. `Faults` is the set of the kinds of failure a
behaviour may show; without the kind, the disjunct cannot be taken. So a run
says exactly which failures its properties survive. `setup` stands for the
failures inside the instance that the code catches, `escape` for exceptions
nobody catches (a websocket handshake, `OSError`). HTTP 403 and its
`PERMISSION_DENIED` are taken together with the other errors that are neither
the request's fault nor a missing resource.

`KeepsPromise` is the refinement of `JobEnvironment`: the stage of a job comes
from the runner's view, `_envs` and the handlers at work, its assets from the
daemon's state.

### OperationWait

The clock ticks only while the loop waits for an answer or sleeps. A poll's
answer is written by the daemon (`Reply`) before it arrives (`Receive`), so it
may be out of date. `left` is the time to the deadline. `int(remaining)` rounds
to whole seconds; `Sec` is the number of ticks in one. In Python `int` rounds
towards zero and the model downwards; both are below one second for negative
values, where the floor of one second decides.

### ExecStream

Frames are a stream and a number. The queue is the code's unbounded queue;
`MaxFrames` bounds what the command writes.

| Action | Code |
| --- | --- |
| `Lookup` | the `NOT_FOUND` and `INVALID_ARGUMENT` aborts at the head of `Exec` |
| `Wrap` | `executor.wrap` (`executor.py` 163-187, `server.py` 776-785): a user's name is looked up by a `getent` of its own; `ExecutorError` is rejected, an error of that exec passes the `except` and escapes |
| `Post`, `ConnectControl`, `ConnectStdin` | the exec request and the two websockets connected in the handler's thread |
| `Connect`, `Receive`, `EndDrain`, `Drop` | a drain thread; `ConnectionClosed` is passed over, a failure to connect is queued |
| `Get`, `Drained`, `Join` | the consumer's loop; a cancelled call is noticed there, and only when a frame is sent |
| `Resolve`, `WaitForRecord` | `_exec_return_code` |

The daemon starts the command when all four websockets have been connected, as
`client.py` 891-896 says, and turns a connection down (`TurnedDown`) if another
of them has been closed before. When a command is over, its record gets the exit
code, or the status error of a virtual machine, or (`bare`) nothing: the plugin
waits for the operation, and a record that succeeded without an exit code counts
as 0 (`client.py` 950-952), unless its metadata is null, where the
`AttributeError` escapes. `forgotten` is a record the daemon no longer has.

`KeepsContract` maps the call to `ExecContract`: what is shown is the set of the
numbers sent of each stream, what is told the exit code. The contract obliges a
call whose command has not begun to see it begin or to fail, and a call whose
command is over to end.

### Readiness

`elapsed` is what a loop has used of its deadline; it stops counting at
`Horizon`, which lies beyond every bound a property speaks of. A command may
block while the boot goes on (`Block`): time then passes without limit. The
operator's own command is taken as a test that exits 0 as cloud-init does.
Console retrieval and logging of the agent wait are left out.

### Services

One action is one command of the container runtime; the launch and the discard
of the instance are one step each, since `Environments` has them in full. A
container's name is the instance's and the suffix the model keeps: `job`, or the
service's alias. `Alias` is a constant, any function from names to host names:
the sanitising (`executor.py` 342) makes several names one, and that is all the
rest depends on. A command that fails may have made its container all the same
(`Fails`). `Start` has a program counter of its own, because the runner may give
up on it and call `Remove` while it is still at work.

| Action | Code |
| --- | --- |
| `Resolve`, `StartServices` | `executor.py` 636-656, `server.py` 351-402 |
| `CreateNetwork`, `Pull`, `Run` | `executor.py` 396-428 |
| `PullJob`, `CreateJob`, `StartJob` | 248-278 |
| `RemoveJob`, `RemoveService`, `RemoveNetwork` | 313-316, 430-439, under `server.py` 974-991 |

### Server and Health

A handler is one state, `running`, and ends in one of three ways; an `Exec` may
never end, unless a `Remove` releases it by deleting the instance its command
runs in. `Accept`, `GiveUp`, `CancelRest`, `Return` and `Exit` are what
`src/` relies on of grpc and the interpreter: a call that is over before a worker
takes it is not run, `server.stop` refuses calls and cancels what is left after
the grace period, its event comes when no call is open, and the interpreter joins
the pool's threads. Time passes only while something waits for it: a probe, a
nap, the grace period. A probe reads the daemon at one moment and publishes up
to `ProbeTime` later, so a finding may be out of date when it is published.
`settled` and `ending` are history: how long the daemon has been as it is, how
long ago the signal was.

### Copy

One request of the file API is one step of `Pull`, `Mkdir` or `Push`. `todo` is
the stack of the recursion in `_pull_into_tar`. The job may change its files
between any two requests (`JobWrites`). A path is a sequence of names; the
archive is the sequence of its entries. What `CopyIn` checks of the stream before
the archive (the first chunk, its fields) is one failure, the environment that is
not on record another. The runner hands the archive of the one
call to the other, whole, since both buffer it. Modes are kept where the code
keeps them: a file's, unless it is 0.

## Runs

| Run | Instance | Shows |
| --- | --- | --- |
| `env_faults` | 2 jobs, 2 networks, 2 threads, all faults but `operator` | `SoleHandler`, `Isolation`, `RecordBacked`, `TypeOK` hold whatever fails |
| `env_clean` | same, `refuse`, `setup`, `impatient` | nothing is without owner; a handler ends with its environment on record or gone; removal completes; the promise is kept |
| `env_operator` | 1 job, operator, failing creates, restart, impatience | every call is answered |
| `wait` | 2 ticks a second, windows of 3 s, six limits, a daemon of any kind | deadline, read budget, verdict, spacing, the wait ends |
| `exec` | 2 frames a stream, 3 codes, every fault | order, complete output before the exit code, right exit code (0 if the record has none), `ExecContract` with its liveness |
| `ready` | 2 runtimes, deadlines of 1 to 3 ticks | all readiness properties |
| `services` | up to 3 services, 4 names: two with one alias, one called `job`; every fault | host names, teardown, the promise |
| `server` | an `Exec` and the `Remove` that releases it, 1 or 2 workers, an interval of 0 or 1 tick | freshness, counting, starvation, shutdown |
| `copy` | 6 trees of up to 3 levels, 2 changes during the walk, a destination of 2 levels, every fault | order, round trip, the archive can be unpacked |

Two jobs and two threads are enough for every interaction the code has: the
handlers of two jobs share only the set of networks and `_envs`, and two calls
on one job are the most that a property distinguishes (`SoleHandler` speaks of
pairs). Two networks let each job have one; a network name is drawn once, since
`_network_name` draws a uuid, so a handle is created at most once. Symmetry is
used only in runs without temporal properties. The limits of `wait` cover no limit,
less than a second, a whole number of seconds, a rest, and more than a window,
on each side. Two frames a stream are enough to swap, repeat or drop one. The deadlines of
`ready` differ, so that one loop's cannot stand in for another's. Three services
let a failure come first, in the middle or last, with a collision before or after
it. Two calls and one worker are the smallest instance with a `Remove` behind
the `Exec` it would end; two workers show that it then does. Trees of three
levels have a directory in a directory with something in it; two changes can
remove a directory and put a file in its place.

`env_operator` leaves out the faults by which a wait may end early: weak
fairness of a handler would be satisfied by them, and the run is to show that
the wait ends because the daemon finishes the operation.

Deadlock checking is off where the modelled call simply ends (`wait`,
`exec`, `ready`, `services`, `copy`) or the process exits (`server`); the
environments never stop, as calls keep coming.

### Disagreements between the code and what is said of it

TLC refutes the one property of each run; `PROJECT.json` quotes the lines.

| Run | What happens |
| --- | --- |
| `viol_leaks` | four `Create`s fail and each leaves something for good: an ill-spelt `ephemeral` is rejected after the network was made; the connection breaks during the launch; the launch takes longer than `Create` waits; a websocket error during the set-up passes every `except` |
| `viol_retry` | a `Remove` that failed is repeated and answers OK; the instance stays |
| `viol_cancel` | a cancelled `Exec` of a silent command goes on |

`SomeFailureIsClean` is far weaker than the comments (one of the four ways to
fail leaves nothing), so that the one counterexample shows all four; each is a
finding of its own. A failure leaves something only when it is settled
(`LeftBehind`): the handler is done, nobody else works on the environment, and
its create operation has ended. So a pending operation does not count, and in the
legs of the lost and of the slow launch TLC has to show the operation succeed: the
instance's record appears before `Unplug`, which cannot delete a network in use,
and the instance then runs on it with nobody to own it. For the slow launch,
`server.py` 624-626 says that the discard takes care of it. The daemon may also
be late enough for the operation to fail on the deleted network; then nothing
stays, and the run does not count that.

The four, a network whose creation is lost sight of (`network_lost`), a create
operation that fails after the instance was made (`boot`) and a failing step of a teardown (`teardown`)
all break `EndsRecordedOrGone`. That is why it and the theorems about it are
stated for the remaining faults, `refuse`, `setup` and `impatient`.

Smaller ones have no run:

* `Start` on a recorded environment whose instance an operator deleted answers
  `NOT_FOUND` (`server.py` 738), where the comment at 207-209 says `INTERNAL`.
* A wait overshoots its deadline by up to the second the last poll asks for at
  least (`client.py` 361), where 356-357 says never; `TimeoutTimely` states the
  true bound.
* A service called `job` has the name of the job container (`executor.py` 412,
  `server.py` 659), so a containerised job with one can never be created;
  `ServicesReachable` shows that it is refused and not mixed up.
* A handler that raises is counted as OK and observed as UNKNOWN, where
  `metrics.py` 154-155 says the code the client observes is set by then;
  `CountsTrue` states what is counted.
* `client.py` 972 says of `push_directory` "mkdir -p semantics", `server.py`
  868-869 that the daemon's file API is not; the model follows the latter.
* `plugin.proto` 122 says that `environment_timeout` limits an environment's
  lifetime; the plugin only bounds the wait of the create operation by it.
  `TimeoutTimely` is about that wait.
* A record without an exit code is reported as 0 (`client.py` 950-952), where
  `plugin.proto` 206 says the command's exit status; `ExitFaithful` states both.
* `HostExecutor.wrap` runs a command, whose errors escape `Exec` with no status
  of the plugin's (`server.py` 776-785 catches `ExecutorError` only): the outcome
  `escaped` of `Wrap`.
* A `Create` the runner has given up on may record its environment after the
  runner's `Remove` was answered OK; nobody removes it then. After a restart no
  environment is on record, and `Remove` answers OK to each.
* `""` is SERVING before the first probe, and for ever if the interval is 0:
  `Fresh` speaks of a poller that runs.

## Fairness

* `Environments`: a worker thread that can run does (they are operating system
  threads and hold no lock across a call), and the daemon finishes the
  operations it accepted. Nobody has to call, no operator has to act.
* `OperationWait`: the loop runs and time passes. The daemon need not answer and
  the operation need not end: `WaitEnds` follows from the read budget.
* `ExecStream`: the handler and the drain threads run, so a handshake is taken or
  turned down and a lookup's `getent` ends (the plugin sets no limit to either:
  `open_timeout=None`); the daemon starts what it can start and closes the records
  of what is over. The command need do nothing.
* `Readiness`: the loops run and time passes. The instance need do nothing.
* `Services`: the handlers run and every exec of a runtime command ends
  (`ExecStream` says when one does). A service need not exit.
* `Server`: the poller, the main thread and the workers run, time passes, and a
  handler that is not a command's, or whose command's instance is gone, ends. No
  call and no signal has to come.
* `Copy` has no fairness and no liveness: each call is a loop that ends by itself,
  unless the job makes files faster than they are pulled.

## Proofs

TLAPS proves these for all values of the constants, from the named assumption of
each module (`EnvironmentsAssumption` and so on: types, and what the code's own
constants satisfy) and from the faults each theorem names.

* **Environments.** `TypeCorrect`, `SoleHandlers`, `Isolated` hold for all
  faults. `SoleHandler` is not inductive: that `Create` may record an environment
  needs that nobody else works on it, and that `Remove` may pop it needs that the
  popped record had no handler; the invariant adds what the runner's phase says
  of handlers at work. `Isolated` rests on `label`, the job each network was
  drawn for. `RecordsBacked` (no operator) adds what each step of `Create` knows
  of the instance it is building. `CallsDescend` and `LaunchesCanEnd` (all faults)
  are what the prover can say of `CallsAnswered`: every step of a handler leaves
  fewer steps to take (`StepsLeft`), so its clean-ups and fallbacks never lead
  back, and the one wait, for the create operation, is for one that has ended or
  still can; that needs that nothing else overwrites the operation's outcome and
  that a pending one has no running instance. The rest is fairness.
* **Reclaim.** `NothingIsOrphaned` and `HandlersEndClean` (faults `refuse`,
  `setup`, `impatient`), `FailedCreateLeavesNothing` and
  `RemoveReleasesEverything` (`refuse`, `setup`) share one invariant: at each
  step of a teardown, how much of the environment is already gone, and that what
  is left is the handler's to take. The last two speak of the answers a patient
  runner gets (`FailedMeansGone`, `RemovedMeansGone`). The
  invariant has a part that survives `network_lost` and `typo` as well (`TInv`):
  `InstancesHaveOwners` and `OverLeavesNoInstance` say that these cost a network
  and never an instance. With `launch_lost`, `slow`, `escape` or a failing teardown even
  that is lost, as `viol_leaks` and `viol_retry` show.
  `EnvironmentsKeepPromise` (`refuse`, `setup`, `impatient`) is the safety part
  of the refinement of `JobEnvironment`: the four conditions of a stage exclude
  each other, a step shows in at most one environment, and one with neither
  record nor worker is clean. `EnvironmentsSound` draws the conclusion for one
  moment.
* **OperationWait.** The key is that `left + age` does not change during a poll:
  it is the time that was left when the poll began, which bounds the window. No
  theorem needs the daemon to be sound: lateness is a premise of the close bound
  of `TimeoutTimely`, and the wide one, a pad and a read budget beyond the limit,
  holds of every wait, ended or not.
* **ExecStream.** `ExitsFaithful`: the streams end only with the command or their
  connection, the handler asks for the record only after them, and every form the
  record takes determines the code: the return value and the status errors are the
  command's, a record without either is 0. `OutputOrdered`, `ExitsComplete` and
  `CallsKeepContract` rest on one invariant about the queue: of each stream it
  holds what was read and not sent, in order (`QueueOrdered`, `NoneLost`); as
  many ends are queued as threads are over and not yet counted (`EndsCounted`);
  an end comes last (`EndsLast`); and a thread is over because its stream is, or
  broke, or its failure is queued (`OverForAReason`). When both ends are counted,
  the queue is therefore empty and everything sent. When they are not and the
  queue is empty, a thread is still at work: `NoLostWakeup` says so of both waits
  of the handler, which have no time limit (`WaitsHaveCause`).
* **Services.** Which containers there are follows from where the loop is: service
  `i` has one exactly if the loop has passed it, under its own alias, so two that
  share an alias never both get past `Run`. The teardown removes `containers` in
  order, and what is not yet removed is a suffix of it. `ServicesKeepPromise` is
  the safety part of the refinement, `ServicesSound` its conclusion.
* **Server.** `Fresh` needs how old the finding at hand is, at each step of the
  poller, in terms of `spent` and `settled`. `ShutdownTimely` follows the one
  probe that may be in flight; `CountsTrue` is a bijection between ended calls
  and counts. `EveryCallSettled` needs that every call that counts as queued is in
  the pool's queue (`Promised`), and that the queue is empty when the process
  exits (`Fate`): so no call is lost on the way down.
* **Readiness.** Behind a preset the boot is over once the system wait has been
  passed, and then nothing is installed any more: so the probes, though separate
  commands, see one state. `PatienceIsExact` follows each loop's clock, and
  bounds the loops that have not ended, too.
* **Copy.** No path on the stack lies in another, nothing that lies in one is
  packed yet, and its directory is (`Walk`); a file nobody touched is packed or
  lies in a path on the stack (`Covered`). That the job's files stay a tree
  whatever it does (`Files`) makes a listing lead to everything below it. In
  the loop of `CopyIn` the target holds the levels and what was pushed, each
  entry in a place of its own (`Pushing`). So no request of `CopyIn` undoes an
  earlier one (`CopyInOnlyAdds`).

Some theorems state a property that no run checks, because the runs check one
that is close to it: `FailedMeansGone`, `RemovedMeansGone`, `InstancesOwned` and
`OverMeansInstanceGone`, `HandlersDescend`, `WaitsCanEnd`, `WaitsHaveCause`,
`NobodyLeftWaiting`, `NothingOverwritten`, `Sound` of `JobEnvironment`, and the
safety parts of the refinements.

Model-checked only: the liveness properties (`CallsAnswered`, `RemovalCompletes`,
`WaitEnds`, `ResolveEnds`, `ShutdownEnds`, `StarvedOnlyIfHeld`) and the fair half
of `KeepsPromise` and `KeepsContract`. Fairness and ENABLED are beyond the
prover.

## Not modelled, and the plan

What is left to do: more than one `Exec` and one `Remove` in `Server`, if TLC's
time allows.

Not modelled, and why:

* TLS and socket set-up, the cached `GET /1.0` and the flavour it tells: read
  once, before anything else happens.
* `Capabilities`, the tables that map architectures and operating systems,
  argument parsing, the wording of logs: no state.
* The bytes of an archive and its chunks: `tarfile` and grpc have them, and both
  handlers hold the archive whole.
* The gauge of active environments and the metrics endpoint: `len(_envs)` at the
  time of the scrape.
* Capabilities, mounts, ports and variables of containers: arguments that
  nothing in the plugin depends on.
* Generated code.
